---- MODULE Spec2Model ----
(***************************************************************************)
(* State-machine model of the netsblox-vm bytecode interpreter             *)
(* (src/src/process.rs) and of the runtime types it relies on              *)
(* (src/src/runtime.rs).  A host owns a set of Process objects that share  *)
(* one GlobalContext (bytecode, settings, system) and drives them by       *)
(* calling initialize and step.                                            *)
(***************************************************************************)
EXTENDS Integers, Sequences, FiniteSets, TLC

(***************************************************************************)
(* Bounds of the model.                                                    *)
(***************************************************************************)
\* number of Process objects owned by the host
NProc == 2
\* number of free instruction slots in the body of the function F
BodyLen == 2
\* settings.max_call_depth of the modelled GlobalContext (default 1024)
MaxCallDepth == 2
\* frames explored beyond max_call_depth
ExtraFrames == 1
\* largest value of the host clock, in seconds
MaxTime == 1
\* number of Barrier allocations that can be live at once
MaxBarriers == 1
\* number of alias handles handed out in the Shared scenarios
MaxAliases == 2
\* longest list in the list scenarios
MaxListLen == 2
\* host calls on one entity's properties in a run
MaxCommands == 2
\* strings pushed into one LosslessJoin, and the longest of them
MaxStrings == 3
MaxStrLen == 2
\* number of requests the HTTP clients send to the execution server
MaxRequests == 3

\* usize::MAX: the sentinel of the bottom frame and the result of a wrapping
\* usize underflow.  Only compared with small numbers, so any large value
\* stands for it.
usize_MAX == 2147483647

Procs == 1..NProc

(***************************************************************************)
(* Option<T>                                                               *)
(***************************************************************************)
None == [tag |-> "None"]
Some(x) == [tag |-> "Some", val |-> x]

(***************************************************************************)
(* Value, Number, conversions (runtime.rs)                                 *)
(***************************************************************************)
NumberV(n) == [type |-> "Number", num |-> n]
StringV(s) == [type |-> "String", str |-> s]
\* captures is a SymbolTable whose bindings are all Aliased
ClosureV(pos, params, captures) ==
    [type |-> "Closure", pos |-> pos, params |-> params, captures |-> captures]

\* the strings of the model that parse as f64 (x.parse::<f64>()), with their value
ParsesAs == [s \in {"0", "1"} |-> IF s = "0" THEN 0 ELSE 1]

\* Value::to_number: Ok(number) or a ConversionError
Conversion(got, expected) ==
    [cause |-> "ConversionError", got |-> got, expected |-> expected]
to_number(v) ==
    CASE v.type = "Number" -> [ok |-> TRUE, val |-> v.num]
      [] v.type = "String" ->
            IF v.str \in DOMAIN ParsesAs
            THEN [ok |-> TRUE, val |-> ParsesAs[v.str]]
            ELSE [ok |-> FALSE, err |-> Conversion("String", "Number")]
      [] OTHER -> [ok |-> FALSE, err |-> Conversion(v.type, "Number")]

\* Value::to_string: strings as they are, numbers formatted, the rest fail
to_string(v) ==
    CASE v.type = "String" -> [ok |-> TRUE, val |-> v.str]
      [] v.type = "Number" -> [ok |-> TRUE, val |-> ToString(v.num)]
      [] OTHER -> [ok |-> FALSE, err |-> Conversion(v.type, "String")]

\* Value::to_json: strings and numbers convert, a closure is a complex type
ToJsonError(type) == [cause |-> "ToJsonError", complex |-> type]
to_json(v) ==
    CASE v.type = "String" -> [ok |-> TRUE, val |-> [json |-> "String", str |-> v.str]]
      [] v.type = "Number" -> [ok |-> TRUE, val |-> [json |-> "Number", num |-> v.num]]
      [] OTHER -> [ok |-> FALSE, err |-> ToJsonError(v.type)]

\* Value::from_json: a string or a number converts, null does not
FromJsonError == [cause |-> "FromJsonError", had |-> "Null"]
JsonNull == [json |-> "Null"]
from_json(j) ==
    CASE j.json = "String" -> [ok |-> TRUE, val |-> StringV(j.str)]
      [] j.json = "Number" -> [ok |-> TRUE, val |-> NumberV(j.num)]
      [] OTHER -> [ok |-> FALSE, err |-> FromJsonError]

\* Value::as_closure
as_closure(v) ==
    IF v.type = "Closure" THEN [ok |-> TRUE, val |-> v]
    ELSE [ok |-> FALSE, err |-> Conversion(v.type, "Closure")]

\* empty_string(): the value pushed when a last-* slot is None
empty_string == StringV("")

(***************************************************************************)
(* ErrorCause and the text a handler binds                                 *)
(***************************************************************************)
NoError == [cause |-> "NoError"]
Custom(msg) == [cause |-> "Custom", msg |-> msg]
UndefinedVariable(name) == [cause |-> "UndefinedVariable", name |-> name]
CallDepthLimit(limit) == [cause |-> "CallDepthLimit", limit |-> limit]
ClosureArgCount(expected, got) ==
    [cause |-> "ClosureArgCount", expected_args |-> expected, got_args |-> got]
Promoted(error) == [cause |-> "Promoted", error |-> error]

\* format!("{err:?}") of the derived Debug implementation
DebugFmt(err) ==
    CASE err.cause = "Custom" -> "Custom { msg: \"" \o err.msg \o "\" }"
      [] err.cause = "UndefinedVariable" ->
            "UndefinedVariable { name: \"" \o err.name \o "\" }"
      [] err.cause = "CallDepthLimit" ->
            "CallDepthLimit { limit: " \o ToString(err.limit) \o " }"
      [] err.cause = "ClosureArgCount" ->
            "ClosureArgCount { expected: " \o ToString(err.expected_args)
                \o ", got: " \o ToString(err.got_args) \o " }"
      [] err.cause = "ConversionError" ->
            "ConversionError { got: " \o err.got
                \o ", expected: " \o err.expected \o " }"
      [] err.cause = "Promoted" -> "Promoted { error: \"" \o err.error \o "\" }"
      [] OTHER -> err.cause

\* the text a handler's variable is bound to (process.rs step)
ErrorText(err) ==
    IF err.cause = "Custom" THEN err.msg ELSE DebugFmt(err)

(***************************************************************************)
(* Shared<T> and SymbolTable (runtime.rs).  A SymbolTable is a function    *)
(* from the names it binds; an Aliased binding refers to a cell of the     *)
(* heap `cells`.                                                           *)
(***************************************************************************)
Unique(v) == [shared |-> "Unique", value |-> v]
Aliased(c) == [shared |-> "Aliased", cell |-> c]

EmptyTable == [n \in {} |-> None]

\* SymbolTable::redefine_or_define that leaves an Aliased binding in place
\* instead of replacing it
redefine_or_define_KeepsAliased(table, var, binding) ==
    IF var \in DOMAIN table /\ table[var].shared = "Aliased" THEN table
    ELSE [n \in (DOMAIN table) \cup {var} |-> IF n = var THEN binding ELSE table[n]]

\* SymbolTable::redefine_or_define: BTreeMap::insert
redefine_or_define(table, var, binding) ==
    [n \in (DOMAIN table) \cup {var} |-> IF n = var THEN binding ELSE table[n]]

\* Shared::get
SharedGet(binding, heap) ==
    IF binding.shared = "Unique" THEN binding.value ELSE heap[binding.cell]

\* Shared::set
set(shared, heap, value) ==
    IF shared.shared = "Unique"
    THEN [shared |-> Unique(value), cells |-> heap]
    ELSE [shared |-> shared, cells |-> [heap EXCEPT ![shared.cell] = value]]

\* LookupGroup::lookup over [globals, fields, locals]: most local table first
lookup(var, glob, flds, locals) ==
    IF var \in DOMAIN locals THEN Some(locals[var])
    ELSE IF var \in DOMAIN flds THEN Some(flds[var])
    ELSE IF var \in DOMAIN glob THEN Some(glob[var])
    ELSE None

(***************************************************************************)
(* Instructions (bytecode.rs is not part of the sources; the variants and  *)
(* their fields are those matched in Process::step_impl).  One instruction *)
(* occupies one position, so aft_pos = pos + 1.                            *)
(***************************************************************************)
Yield == [op |-> "Yield"]
WarpStart == [op |-> "WarpStart"]
WarpStop == [op |-> "WarpStop"]
PushInt(value) == [op |-> "PushInt", value |-> value]
PushString(value) == [op |-> "PushString", str |-> value]
PushVariable(var) == [op |-> "PushVariable", var |-> var]
Assign(var) == [op |-> "Assign", var |-> var]
PopValue == [op |-> "PopValue"]
BinaryOp(op) == [op |-> "BinaryOp", bin |-> op]
MetaPush(value) == [op |-> "MetaPush", str |-> value]
Call(pos, params) == [op |-> "Call", pos |-> pos, params |-> params]
MakeClosure(pos, params, captures) ==
    [op |-> "MakeClosure", pos |-> pos, params |-> params, captures |-> captures]
CallClosure(args) == [op |-> "CallClosure", args |-> args]
SendNetworkMessage(values, expect_reply) ==
    [op |-> "SendNetworkMessage", values |-> values, expect_reply |-> expect_reply]
Return == [op |-> "Return"]
PushHandler(pos, var) == [op |-> "PushHandler", pos |-> pos, var |-> var]
PopHandler == [op |-> "PopHandler"]
Throw == [op |-> "Throw"]
Broadcast(wait) == [op |-> "Broadcast", wait |-> wait]
Ask == [op |-> "Ask"]
Sleep == [op |-> "Sleep"]
CallRpc(service, rpc, args) ==
    [op |-> "CallRpc", service |-> service, rpc |-> rpc, args |-> args]
PushRpcError == [op |-> "PushRpcError"]
Syscall(len) == [op |-> "Syscall", len |-> len]
PushSyscallError == [op |-> "PushSyscallError"]
SendNetworkReply == [op |-> "SendNetworkReply"]
\* Instruction::Print (the name is taken by the TLC module)
SayIns == [op |-> "Print"]

(***************************************************************************)
(* The bytecode image, as the compiler lays scripts out.                   *)
(*   Main (entry 0):   try { return 1 + F(0) } catch e { return e }        *)
(*   F(x) (entry FEntry):  BodyLen statements, then  return x              *)
(* F is also an entry point of its own: a script with no handler around    *)
(* it and, depending on the locals it is started with, no x.               *)
(***************************************************************************)
MainTry(handler_pos, f_pos) ==
    << PushHandler(handler_pos, "e"), PushInt(1), MetaPush("x"), PushInt(0),
       Call(f_pos, 1), BinaryOp("Add"), Return >>
MainCatch == << PopHandler, PushVariable("e"), Return >>
FTail == << PushVariable("x"), Return >>

HandlerPos == Len(MainTry(0, 0))
FEntry == HandlerPos + Len(MainCatch)
EntryPoints == {0, FEntry}

\* The statements a slot of F may hold.  A block that is still open at the
\* `return x` that ends F (warp, try, a loop that keeps its counter on the
\* value stack) is its opening instruction alone; the handler of a try in F
\* is the catch block of Main: catch e { return e }.
YieldStmt == << Yield >>
WarpBlock == << WarpStart >>
TryBlock == << PushHandler(HandlerPos, "e") >>
LoopCounter == << PushInt(1) >>
ThrowStmt == << PushString("boom"), Throw >>
SleepStmt(seconds) == << PushInt(seconds), Sleep >>
RunF == << Call(FEntry, 0), PopValue >>
RunClosure == << MakeClosure(FEntry, 0, 0), CallClosure(0), PopValue >>
AskStmt == << PushString("q"), Ask >>
BroadcastStmt == << PushString("msg"), Broadcast(FALSE) >>
BroadcastWaitStmt == << PushString("msg"), Broadcast(TRUE) >>
RpcStmt == << MetaPush("arg"), PushInt(1), CallRpc("svc", "rpc", 1), PopValue >>
SyscallStmt == << PushString("cmd"), Syscall(0), PopValue >>
RpcErrorStmt == << PushRpcError, PopValue >>
RpcCheckStmt ==
    << MetaPush("arg"), PushInt(1), CallRpc("svc", "rpc", 1), PopValue,
       PushRpcError, PopValue >>
SyscallErrorStmt == << PushSyscallError, PopValue >>
ReplyStmt == << PushString("re"), SendNetworkReply >>
SayStmt == << PushString("out"), SayIns >>
MessageStmt ==
    << MetaPush("field"), PushInt(1), PushString("target"), SendNetworkMessage(1, TRUE), PopValue >>

Statements ==
    { YieldStmt, WarpBlock, TryBlock, LoopCounter, ThrowStmt, SleepStmt(1),
      SleepStmt(0), SleepStmt(-1), RunF, RunClosure, AskStmt, BroadcastStmt }
Bodies == [1..BodyLen -> Statements]

RECURSIVE Flatten(_)
Flatten(stmts) ==
    IF stmts = <<>> THEN <<>> ELSE Head(stmts) \o Flatten(Tail(stmts))

\* a third script, laid out after F:  try { reply <ring> } catch e { reply e }
\* (a ring, i.e. a closure, has no JSON form)
ReplyScript(at) ==
    << PushHandler(at + 6, "e"), MakeClosure(FEntry, 0, 0), SendNetworkReply,
       PopHandler, PushString("sent"), Return,
       PopHandler, PushVariable("e"), SendNetworkReply, PushString("sent"), Return >>

\* where the `return x` that ends F starts, and where the third script starts
TailEntry(b) == FEntry + Len(Flatten(b))
ReplyEntry(b) == TailEntry(b) + Len(FTail)

\* a fourth script, the body of a closure over x:  x = x + 1; return x
BumpScript ==
    << PushVariable("x"), PushInt(1), BinaryOp("Add"), Assign("x"),
       PushVariable("x"), Return >>
BumpEntry(b) == ReplyEntry(b) + Len(ReplyScript(0))

Code(b) ==
    MainTry(HandlerPos, FEntry) \o MainCatch \o Flatten(b) \o FTail
        \o ReplyScript(ReplyEntry(b)) \o BumpScript

(***************************************************************************)
(* Process (process.rs)                                                    *)
(***************************************************************************)
\* Process::new
NewProcess(start_pos) ==
    [ start_pos |-> start_pos, running |-> FALSE, barrier |-> None,
      reply_key |-> None, pos |-> 0, warp_counter |-> 0,
      call_stack |-> <<>>, value_stack |-> <<>>, handler_stack |-> <<>>,
      meta_stack |-> <<>>, defer |-> None, last_syscall_error |-> None,
      last_rpc_error |-> None, last_answer |-> None ]

\* CallStackEntry
CallStackEntry(called_from, return_to, locals, warp_counter, vsize, hsize) ==
    [ called_from |-> called_from, return_to |-> return_to, locals |-> locals,
      warp_counter |-> warp_counter, value_stack_size |-> vsize,
      handler_stack_size |-> hsize ]

\* Handler
Handler(pos, var, warp_counter, call_stack_size, value_stack_size) ==
    [ pos |-> pos, var |-> var, warp_counter |-> warp_counter,
      call_stack_size |-> call_stack_size, value_stack_size |-> value_stack_size ]

\* Defer::Sleep, Defer::Request, Defer::Barrier
DeferSleep(until, aft_pos) == [kind |-> "Sleep", until |-> until, aft_pos |-> aft_pos]
DeferRequest(key, aft_pos, action) ==
    [kind |-> "Request", key |-> key, aft_pos |-> aft_pos, action |-> action]
DeferCommand(key, aft_pos) ==
    [kind |-> "Command", key |-> key, aft_pos |-> aft_pos, action |-> "Command"]
DeferMessageReply(key, aft_pos) ==
    [kind |-> "MessageReply", key |-> key, aft_pos |-> aft_pos, action |-> "Reply"]
DeferBarrier(condition, aft_pos) ==
    [kind |-> "Barrier", condition |-> condition, aft_pos |-> aft_pos]

\* AsyncResult<Result<Value, String>> (runtime.rs), as the system holds it for
\* a request key
NoRequest == [st |-> "None"]
Pending == [st |-> "Pending"]
Completed(result) == [st |-> "Completed", result |-> result]
Consumed == [st |-> "Consumed"]

\* complete that overwrites a value already stored
complete_Overwrites(cell, value) ==
    IF cell.st \in {"Pending", "Completed"}
    THEN [cell |-> Completed(value), ok |-> TRUE]
    ELSE [cell |-> cell, ok |-> FALSE, back |-> value]

\* AsyncResult::complete: Ok(()) from Pending, Err(value) otherwise
complete(cell, value) ==
    IF cell.st = "Pending"
    THEN [cell |-> Completed(value), ok |-> TRUE]
    ELSE [cell |-> cell, ok |-> FALSE, back |-> value]

\* poll that hands out a completed value without consuming it
poll_KeepsValue(cell) ==
    [cell |-> cell, ret |-> cell]

\* AsyncResult::poll: Pending stays; Completed and Consumed are replaced by
\* Consumed and the previous state is returned
poll(cell) ==
    IF cell.st = "Pending"
    THEN [cell |-> cell, ret |-> Pending]
    ELSE [cell |-> Consumed, ret |-> cell]

\* Vec helpers: last(), all but the last, drain(n..)
Last(s) == s[Len(s)]
Front(s) == SubSeq(s, 1, Len(s) - 1)
Truncate(s, n) == SubSeq(s, 1, n)

\* initialize without the reset of last_answer
initialize_KeepsAnswer(P, locals, barrier, reply_key) ==
    [ P EXCEPT
        !.pos = P.start_pos,
        !.running = TRUE,
        !.barrier = barrier,
        !.reply_key = reply_key,
        !.warp_counter = 0,
        !.call_stack = << CallStackEntry(usize_MAX, usize_MAX, locals, 0, 0, 0) >>,
        !.value_stack = <<>>,
        !.handler_stack = <<>>,
        !.meta_stack = <<>>,
        !.defer = None,
        !.last_syscall_error = None,
        !.last_rpc_error = None ]

\* Process::initialize, without the drop of the barrier it replaces
\* (see Initialize)
initialize(P, locals, barrier, reply_key) ==
    [ P EXCEPT
        !.pos = P.start_pos,
        !.running = TRUE,
        !.barrier = barrier,
        !.reply_key = reply_key,
        !.warp_counter = 0,
        !.call_stack = << CallStackEntry(usize_MAX, usize_MAX, locals, 0, 0, 0) >>,
        !.value_stack = <<>>,
        !.handler_stack = <<>>,
        !.meta_stack = <<>>,
        !.defer = None,
        !.last_syscall_error = None,
        !.last_rpc_error = None,
        !.last_answer = None ]

(***************************************************************************)
(* Outcomes of step_impl: the process and world after it, the ProcessStep  *)
(* returned ("Err" for Err(cause), "Panic" for a Rust panic: an unwrap of  *)
(* None, a drain past the end, a failed debug assertion or an arithmetic   *)
(* overflow in a debug build).                                             *)
(***************************************************************************)
\* polled: the defer slot was polled; executed: an instruction was fetched and
\* executed (op, from position at); recovered: step moved the process into a
\* handler; answers: the results of syscalls and RPCs that the step
\* processed, in order; sent: the send_reply calls it made; woke: the
\* process as the poll of a finished operation left it, before the fetch
Outcome(P, W, res, err, result) ==
    [proc |-> P, world |-> W, res |-> res, err |-> err, result |-> result,
     polled |-> FALSE, executed |-> FALSE, recovered |-> FALSE,
     op |-> "none", at |-> 0, answers |-> <<>>, sent |-> <<>>, woke |-> None,
     performed |-> <<>>]
Normal(P, W) == Outcome(P, W, "Normal", NoError, None)
Yielded(P, W) == Outcome(P, W, "Yield", NoError, None)
Terminated(P, W, v) == Outcome(P, W, "Terminate", NoError, Some(v))
Broadcasted(P, W, msg_type, barrier) ==
    Outcome(P, W, "Broadcast", NoError, Some([msg_type |-> msg_type, barrier |-> barrier]))
\* an error returned with the position already moved on
Raised_Advanced(P, W, err) == Outcome([P EXCEPT !.pos = @ + 1], W, "Err", err, None)
Raised(P, W, err) == Outcome(P, W, "Err", err, None)
Panicked(P, W) == Outcome(P, W, "Panic", NoError, None)

Push(P, v) == [P EXCEPT !.value_stack = Append(@, v)]
Pop(P) == [P EXCEPT !.value_stack = Front(@)]
Advance(P, aft_pos) == [P EXCEPT !.pos = aft_pos]
TopFrame(P) == Last(P.call_stack)

(***************************************************************************)
(* Instruction semantics: one operator per arm of the match in step_impl.  *)
(* P is the process, W the world around it: settings, the host clock       *)
(* time_ms, the arena cells, globals, the entity's fields, the requests    *)
(* the system holds, the strong counts of the barriers, and whether the    *)
(* build has debug assertions and overflow checks (debug).                 *)
(***************************************************************************)
\* Yield that yields inside a warp region too
InsYield_IgnoresWarp(P, W, ins, aft_pos) ==
    Outcome(Advance(P, aft_pos), W, "Yield", NoError, None)

\* Instruction::Yield
InsYield(P, W, ins, aft_pos) ==
    IF P.warp_counter = 0
    THEN Yielded(Advance(P, aft_pos), W)
    ELSE Normal(Advance(P, aft_pos), W)

\* Instruction::WarpStart: usize += 1
InsWarpStart(P, W, ins, aft_pos) ==
    IF P.warp_counter = usize_MAX
    THEN IF W.debug THEN Panicked(P, W)
         ELSE Normal(Advance([P EXCEPT !.warp_counter = 0], aft_pos), W)
    ELSE Normal(Advance([P EXCEPT !.warp_counter = @ + 1], aft_pos), W)

\* Instruction::WarpStop: usize -= 1
InsWarpStop(P, W, ins, aft_pos) ==
    IF P.warp_counter = 0
    THEN IF W.debug THEN Panicked(P, W)
         ELSE Normal(Advance([P EXCEPT !.warp_counter = usize_MAX], aft_pos), W)
    ELSE Normal(Advance([P EXCEPT !.warp_counter = @ - 1], aft_pos), W)

\* Instruction::PushInt
InsPushInt(P, W, ins, aft_pos) ==
    Normal(Advance(Push(P, NumberV(ins.value)), aft_pos), W)

\* Instruction::PushString
InsPushString(P, W, ins, aft_pos) ==
    Normal(Advance(Push(P, StringV(ins.str)), aft_pos), W)

\* Instruction::PushVariable
InsPushVariable(P, W, ins, aft_pos) ==
    LET found == lookup(ins.var, W.globals, W.fields, TopFrame(P).locals) IN
    IF found = None THEN Raised(P, W, UndefinedVariable(ins.var))
    ELSE Normal(Advance(Push(P, SharedGet(found.val, W.cells)), aft_pos), W)

\* set_or_define that writes the locals whatever the other tables bind
set_or_define_Local(P, W, var, value) ==
    LET top == Len(P.call_stack)
        locals == P.call_stack[top].locals
    IN IF var \in DOMAIN locals THEN
            LET s == set(locals[var], W.cells, value) IN
            [proc |-> [P EXCEPT !.call_stack[top].locals[var] = s.shared],
             world |-> [W EXCEPT !.cells = s.cells]]
       ELSE [proc |-> [P EXCEPT !.call_stack[top].locals =
                          redefine_or_define(@, var, Unique(value))],
             world |-> W]

\* LookupGroup::set_or_define over [globals, fields, locals]: the binding of
\* the most local table that has var is set; when none has it, var is
\* defined in the locals
set_or_define(P, W, var, value) ==
    LET top == Len(P.call_stack)
        locals == P.call_stack[top].locals
    IN IF var \in DOMAIN locals THEN
            LET s == set(locals[var], W.cells, value) IN
            [proc |-> [P EXCEPT !.call_stack[top].locals[var] = s.shared],
             world |-> [W EXCEPT !.cells = s.cells]]
       ELSE IF var \in DOMAIN W.fields THEN
            LET s == set(W.fields[var], W.cells, value) IN
            [proc |-> P, world |-> [W EXCEPT !.cells = s.cells, !.fields[var] = s.shared]]
       ELSE IF var \in DOMAIN W.globals THEN
            LET s == set(W.globals[var], W.cells, value) IN
            [proc |-> P, world |-> [W EXCEPT !.cells = s.cells, !.globals[var] = s.shared]]
       ELSE [proc |-> [P EXCEPT !.call_stack[top].locals =
                          redefine_or_define(@, var, Unique(value))],
             world |-> W]

\* Assign that writes the locals whatever the other tables bind
InsAssign_Local(P, W, ins, aft_pos) ==
    IF P.value_stack = <<>> THEN Panicked(P, W)
    ELSE LET value == Last(P.value_stack)
             s == set_or_define_Local(Pop(P), W, ins.var, value)
         IN Normal(Advance(s.proc, aft_pos), s.world)

\* Instruction::Assign
InsAssign(P, W, ins, aft_pos) ==
    IF P.value_stack = <<>> THEN Panicked(P, W)
    ELSE LET value == Last(P.value_stack)
             s == set_or_define(Pop(P), W, ins.var, value)
         IN Normal(Advance(s.proc, aft_pos), s.world)

\* Instruction::PopValue
InsPopValue(P, W, ins, aft_pos) ==
    IF P.value_stack = <<>> THEN Panicked(P, W)
    ELSE Normal(Advance(Pop(P), aft_pos), W)

\* ops::binary_op on two scalars (neither operand is a list): the scalar
\* operation on the numbers both convert to, the left one first
binary_op(a, b, op) ==
    LET x == to_number(a)
        y == to_number(b)
    IN IF ~x.ok THEN x
       ELSE IF ~y.ok THEN y
       ELSE CASE op = "Add" -> [ok |-> TRUE, val |-> NumberV(x.val + y.val)]
              [] op = "Sub" -> [ok |-> TRUE, val |-> NumberV(x.val - y.val)]

\* Instruction::BinaryOp
InsBinaryOp(P, W, ins, aft_pos) ==
    IF Len(P.value_stack) < 2 THEN Panicked(P, W)
    ELSE LET b == Last(P.value_stack)
             a == Last(Front(P.value_stack))
             r == binary_op(a, b, ins.bin)
             Q == Pop(Pop(P))
         IN IF r.ok THEN Normal(Advance(Push(Q, r.val), aft_pos), W)
            ELSE Raised(Q, W, r.err)

\* Instruction::MetaPush
InsMetaPush(P, W, ins, aft_pos) ==
    Normal(Advance([P EXCEPT !.meta_stack = Append(@, ins.str)], aft_pos), W)

\* the locals built by popping one value per name, last name first; of two
\* equal names the earlier one is inserted last and wins
BindParams(names, values) ==
    LET n == Len(names)
        base == Len(values) - n
        first(x) == CHOOSE i \in 1..n :
                        names[i] = x /\ \A j \in 1..(i - 1) : names[j] # x
    IN [x \in {names[i] : i \in 1..n} |-> Unique(values[base + first(x)])]

\* Instruction::Call
InsCall(P, W, ins, aft_pos) ==
    IF Len(P.call_stack) >= W.settings.max_call_depth
    THEN Raised(P, W, CallDepthLimit(W.settings.max_call_depth))
    ELSE IF W.debug /\ Len(P.meta_stack) # ins.params THEN Panicked(P, W)
    ELSE LET params == P.meta_stack
             n == Len(params)
         IN IF Len(P.value_stack) < n THEN Panicked(P, W)
            ELSE LET rest == Truncate(P.value_stack, Len(P.value_stack) - n)
                     frame == CallStackEntry(P.pos, aft_pos,
                                  BindParams(params, P.value_stack),
                                  P.warp_counter, Len(rest), Len(P.handler_stack))
                 IN Normal([P EXCEPT !.meta_stack = <<>>,
                                     !.value_stack = rest,
                                     !.call_stack = Append(@, frame),
                                     !.pos = ins.pos], W)

\* Shared::alias on the binding of var in one table: a Unique binding moves
\* its value into a new cell of the arena and becomes Aliased
AliasIn(table, var, heap) ==
    IF table[var].shared = "Aliased"
    THEN [table |-> table, cells |-> heap, alias |-> table[var]]
    ELSE [table |-> [table EXCEPT ![var] = Aliased(Len(heap) + 1)],
          cells |-> Append(heap, table[var].value),
          alias |-> Aliased(Len(heap) + 1)]

\* lookup_var!(mut var).alias(mc): LookupGroup::lookup_mut, most local first
AliasVar(P, W, var) ==
    LET top == Len(P.call_stack)
        locals == P.call_stack[top].locals
    IN IF var \in DOMAIN locals THEN
            LET a == AliasIn(locals, var, W.cells) IN
            [found |-> TRUE, alias |-> a.alias,
             proc |-> [P EXCEPT !.call_stack[top].locals = a.table],
             world |-> [W EXCEPT !.cells = a.cells]]
       ELSE IF var \in DOMAIN W.fields THEN
            LET a == AliasIn(W.fields, var, W.cells) IN
            [found |-> TRUE, alias |-> a.alias, proc |-> P,
             world |-> [W EXCEPT !.cells = a.cells, !.fields = a.table]]
       ELSE IF var \in DOMAIN W.globals THEN
            LET a == AliasIn(W.globals, var, W.cells) IN
            [found |-> TRUE, alias |-> a.alias, proc |-> P,
             world |-> [W EXCEPT !.cells = a.cells, !.globals = a.table]]
       ELSE [found |-> FALSE, alias |-> None, proc |-> P, world |-> W]

\* the loop of MakeClosure over the capture names, from the i-th on
RECURSIVE CaptureAll(_, _, _, _, _)
CaptureAll(captures, i, P, W, caps) ==
    IF i > Len(captures)
    THEN [ok |-> TRUE, proc |-> P, world |-> W, caps |-> caps]
    ELSE LET a == AliasVar(P, W, captures[i]) IN
         IF ~a.found
         THEN [ok |-> FALSE, proc |-> P, world |-> W, caps |-> caps,
               err |-> UndefinedVariable(captures[i])]
         ELSE CaptureAll(captures, i + 1, a.proc, a.world,
                         redefine_or_define(caps, captures[i], a.alias))

\* Instruction::MakeClosure
InsMakeClosure(P, W, ins, aft_pos) ==
    IF W.debug /\ Len(P.meta_stack) # ins.params + ins.captures THEN Panicked(P, W)
    ELSE IF ins.params > Len(P.meta_stack) THEN Panicked(P, W)
    ELSE LET captures == SubSeq(P.meta_stack, ins.params + 1, Len(P.meta_stack))
             params == SubSeq(P.meta_stack, 1, ins.params)
             c == CaptureAll(captures, 1, [P EXCEPT !.meta_stack = <<>>], W, EmptyTable)
         IN IF ~c.ok THEN Raised(c.proc, c.world, c.err)
            ELSE Normal(Advance(Push(c.proc, ClosureV(ins.pos, params, c.caps)),
                                aft_pos), c.world)

\* CallClosure that gives the call copies of the captured values
InsCallClosure_Copies(P, W, ins, aft_pos) ==
    IF P.value_stack = <<>> THEN Panicked(P, W)
    ELSE LET c == as_closure(Last(P.value_stack))
             Q == Pop(P)
         IN IF ~c.ok THEN Raised(Q, W, c.err)
            ELSE LET closure == c.val
                     n == Len(closure.params)
                 IN IF n # ins.args THEN Raised(Q, W, ClosureArgCount(n, ins.args))
                    ELSE IF Len(Q.value_stack) < n THEN Panicked(P, W)
                    ELSE LET bound == BindParams(closure.params, Q.value_stack)
                             locals == [x \in (DOMAIN closure.captures) \cup (DOMAIN bound) |->
                                          IF x \in DOMAIN bound THEN bound[x]
                                          ELSE Unique(SharedGet(closure.captures[x], W.cells))]
                             rest == Truncate(Q.value_stack, Len(Q.value_stack) - n)
                             frame == CallStackEntry(P.pos, aft_pos, locals,
                                          P.warp_counter, Len(rest), Len(P.handler_stack))
                         IN Normal([Q EXCEPT !.value_stack = rest,
                                             !.call_stack = Append(@, frame),
                                             !.pos = closure.pos], W)

\* Instruction::CallClosure.  The captures of a closure are Aliased already,
\* so aliasing them again copies the handles.
InsCallClosure(P, W, ins, aft_pos) ==
    IF P.value_stack = <<>> THEN Panicked(P, W)
    ELSE LET c == as_closure(Last(P.value_stack))
             Q == Pop(P)
         IN IF ~c.ok THEN Raised(Q, W, c.err)
            ELSE LET closure == c.val
                     n == Len(closure.params)
                 IN IF n # ins.args THEN Raised(Q, W, ClosureArgCount(n, ins.args))
                    ELSE IF Len(Q.value_stack) < n THEN Panicked(P, W)
                    ELSE LET bound == BindParams(closure.params, Q.value_stack)
                             locals == [x \in (DOMAIN closure.captures) \cup (DOMAIN bound) |->
                                          IF x \in DOMAIN bound THEN bound[x]
                                          ELSE closure.captures[x]]
                             rest == Truncate(Q.value_stack, Len(Q.value_stack) - n)
                             frame == CallStackEntry(P.pos, aft_pos, locals,
                                          P.warp_counter, Len(rest), Len(P.handler_stack))
                         IN Normal([Q EXCEPT !.value_stack = rest,
                                             !.call_stack = Append(@, frame),
                                             !.pos = closure.pos], W)

\* Return that leaves the warp counter as the callee left it
InsReturn_KeepsWarp(P, W, ins, aft_pos) ==
    IF P.call_stack = <<>> \/ P.value_stack = <<>> THEN Panicked(P, W)
    ELSE LET frame == Last(P.call_stack)
             Q == [P EXCEPT
                     !.call_stack = Front(@),
                     !.pos = frame.return_to,
                     !.value_stack = Append(Truncate(Front(@), frame.value_stack_size),
                                            Last(@)),
                     !.handler_stack = Truncate(@, frame.handler_stack_size)]
         IN IF Q.call_stack # <<>> THEN Normal(Q, W)
            ELSE Terminated(Pop(Q), W, Last(Q.value_stack))

\* Return that leaves the handlers of the returned call on the handler stack
InsReturn_KeepsHandlers(P, W, ins, aft_pos) ==
    IF P.call_stack = <<>> \/ P.value_stack = <<>> THEN Panicked(P, W)
    ELSE LET frame == Last(P.call_stack)
             values == Front(P.value_stack)
         IN IF frame.value_stack_size > Len(values) THEN Panicked(P, W)
            ELSE LET Q == [P EXCEPT
                             !.call_stack = Front(@),
                             !.pos = frame.return_to,
                             !.warp_counter = frame.warp_counter,
                             !.value_stack = Append(Truncate(values, frame.value_stack_size),
                                                    Last(P.value_stack))]
                 IN IF Q.call_stack # <<>> THEN Normal(Q, W)
                    ELSE Terminated(Pop(Q), W, Last(Q.value_stack))

\* Instruction::Return
InsReturn(P, W, ins, aft_pos) ==
    IF P.call_stack = <<>> \/ P.value_stack = <<>> THEN Panicked(P, W)
    ELSE LET frame == Last(P.call_stack)
             return_value == Last(P.value_stack)
             values == Front(P.value_stack)
         IN IF frame.value_stack_size > Len(values)
               \/ frame.handler_stack_size > Len(P.handler_stack)
            THEN Panicked(P, W)
            ELSE LET Q == [P EXCEPT
                             !.call_stack = Front(@),
                             !.pos = frame.return_to,
                             !.warp_counter = frame.warp_counter,
                             !.value_stack = Append(Truncate(values, frame.value_stack_size),
                                                    return_value),
                             !.handler_stack = Truncate(@, frame.handler_stack_size)]
                 IN IF Q.call_stack # <<>> THEN Normal(Q, W)
                    ELSE IF W.debug /\ ( Len(Q.value_stack) # 1
                                         \/ frame.called_from # usize_MAX
                                         \/ frame.return_to # usize_MAX
                                         \/ frame.warp_counter # 0
                                         \/ frame.value_stack_size # 0
                                         \/ frame.handler_stack_size # 0 )
                    THEN Panicked(P, W)
                    ELSE Terminated(Pop(Q), W, Last(Q.value_stack))

\* Instruction::PushHandler
InsPushHandler(P, W, ins, aft_pos) ==
    Normal(Advance([P EXCEPT !.handler_stack =
                        Append(@, Handler(ins.pos, ins.var, P.warp_counter,
                                          Len(P.call_stack), Len(P.value_stack)))],
                   aft_pos), W)

\* Instruction::PopHandler
InsPopHandler(P, W, ins, aft_pos) ==
    IF P.handler_stack = <<>> THEN Panicked(P, W)
    ELSE Normal(Advance([P EXCEPT !.handler_stack = Front(@)], aft_pos), W)

\* Instruction::Throw
InsThrow(P, W, ins, aft_pos) ==
    IF P.value_stack = <<>> THEN Panicked(P, W)
    ELSE LET msg == to_string(Last(P.value_stack)) IN
         IF msg.ok THEN Raised(Pop(P), W, Custom(msg.val))
         ELSE Raised(Pop(P), W, msg.err)

\* Barrier (runtime.rs): an Rc<()>; BarrierCondition: a Weak<()> to it.  An
\* allocation is identified by a number and is free for reuse when neither a
\* strong nor a weak handle to it is left.  strong[b] is the strong count of
\* the Rc; held[b] is the number of Barrier handles of b in the hands of the
\* host (a handle returned in a ProcessStep is one), the others being the
\* barrier fields of the processes.
FreeBarriers(W) == {b \in DOMAIN W.strong : W.strong[b] = 0 /\ W.weak[b] = 0}

\* Barrier::new: the allocation of the new Rc, with one strong handle
NewBarrier(W) == CHOOSE b \in FreeBarriers(W) : \A c \in FreeBarriers(W) : b <= c

\* Barrier::get_condition: Rc::downgrade
get_condition(W, b) == [W EXCEPT !.weak[b] = @ + 1]

\* a condition that looks at the handles of the host alone
is_completed_IgnoresClones(W, b) == W.held[b] = 0

\* a condition that also counts the weak handles, the waiting one among them
is_completed_CountsWeak(W, b) == W.strong[b] + W.weak[b] = 0

\* BarrierCondition::is_completed: no strong handle is left
is_completed(W, b) == W.strong[b] = 0

\* Barrier::clone: one more strong handle to the same allocation
clone(W, b) == [W EXCEPT !.strong[b] = @ + 1]

\* Instruction::Broadcast
InsBroadcast(P, W, ins, aft_pos) ==
    IF P.value_stack = <<>> THEN Panicked(P, W)
    ELSE LET msg_type == to_string(Last(P.value_stack))
             Q == Pop(P)
         IN IF ~msg_type.ok THEN Raised(Q, W, msg_type.err)
            ELSE IF ~ins.wait
            THEN Broadcasted(Advance(Q, aft_pos), W, msg_type.val, None)
            ELSE LET b == NewBarrier(W) IN
                 Broadcasted([Q EXCEPT !.defer = Some(DeferBarrier(b, aft_pos))],
                             get_condition([W EXCEPT !.strong[b] = 1, !.held[b] = 1], b),
                             msg_type.val, Some(b))

\* Result<Value, String>: what the system answers a request with
OkResult(v) == [ok |-> TRUE, val |-> v]
ErrResult(e) == [ok |-> FALSE, error |-> e]

\* MaybeAsync: how System::perform_request answers
Sync(result) == [mode |-> "Sync", result |-> result]
Async == [mode |-> "Async"]

\* the optional out-parameters of process_result: the slot of the process
\* to write, or no slot
NoSlot == "none"
SetSlot(P, slot, v) == IF slot = NoSlot THEN P ELSE [P EXCEPT ![slot] = v]

\* process_result that leaves the error slot alone when a call succeeds
process_result_KeepsError(P, result, error_scheme, stack, last_ok, last_err) ==
    IF result.ok
    THEN LET Q == SetSlot(P, last_ok, Some(result.val))
         IN [ok |-> TRUE, proc |-> IF stack THEN Push(Q, result.val) ELSE Q]
    ELSE IF error_scheme = "Soft"
    THEN LET x == StringV(result.error)
             Q == SetSlot(SetSlot(P, last_ok, None), last_err, Some(x))
         IN [ok |-> TRUE, proc |-> IF stack THEN Push(Q, x) ELSE Q]
    ELSE [ok |-> FALSE, err |-> Promoted(result.error)]

\* process_result that takes every error scheme for Soft
process_result_AlwaysSoft(P, result, error_scheme, stack, last_ok, last_err) ==
    IF result.ok
    THEN LET Q == SetSlot(SetSlot(P, last_err, None), last_ok, Some(result.val))
         IN [ok |-> TRUE, proc |-> IF stack THEN Push(Q, result.val) ELSE Q]
    ELSE LET x == StringV(result.error)
             Q == SetSlot(SetSlot(P, last_ok, None), last_err, Some(x))
         IN [ok |-> TRUE, proc |-> IF stack THEN Push(Q, x) ELSE Q]

\* process_result, for a to_value that is Some: on Ok the error slot is
\* cleared and the value goes to last_ok and the stack; on Err under Soft the
\* ok slot is cleared and the error string goes to last_err and the stack;
\* on Err under Hard the error is promoted
process_result(P, result, error_scheme, stack, last_ok, last_err) ==
    IF result.ok
    THEN LET Q == SetSlot(SetSlot(P, last_err, None), last_ok, Some(result.val))
         IN [ok |-> TRUE, proc |-> IF stack THEN Push(Q, result.val) ELSE Q]
    ELSE IF error_scheme = "Soft"
    THEN LET x == StringV(result.error)
             Q == SetSlot(SetSlot(P, last_ok, None), last_err, Some(x))
         IN [ok |-> TRUE, proc |-> IF stack THEN Push(Q, x) ELSE Q]
    ELSE [ok |-> FALSE, err |-> Promoted(result.error)]

\* the syscall and RPC results among the results a step processed
Answer(action, result) ==
    IF action \in {"Syscall", "Rpc"}
    THEN << [action |-> action, result |-> result] >>
    ELSE <<>>

\* process_request!: process_result for the action of the request, then
\* self.pos = aft_pos.  Syscall and Rpc: the scheme of the settings, push,
\* their own error slot.  Input: hard errors, no push, the value goes to
\* last_answer.
process_request(P, W, result, action, aft_pos) ==
    LET r == CASE action = "Syscall" ->
                    process_result(P, result, W.settings.syscall_error_scheme,
                                   TRUE, NoSlot, "last_syscall_error")
               [] action = "Rpc" ->
                    process_result(P, result, W.settings.rpc_error_scheme,
                                   TRUE, NoSlot, "last_rpc_error")
               [] action = "Input" ->
                    process_result(P, result, "Hard", FALSE, "last_answer", NoSlot)
    IN IF r.ok
       THEN [Normal(Advance(r.proc, aft_pos), W) EXCEPT !.answers = Answer(action, result)]
       ELSE [Raised(P, W, r.err) EXCEPT !.answers = Answer(action, result)]

\* process_command!: process_result without a value (hard errors, nothing
\* pushed, no slot), then self.pos = aft_pos
process_command(P, W, result, aft_pos) ==
    LET r == process_result(P, result, "Hard", FALSE, NoSlot, NoSlot)
    IN IF r.ok THEN Normal(Advance(P, aft_pos), W) ELSE Raised(P, W, r.err)

\* the call of System::perform_request or System::perform_command that a
\* step made
Performed(call, action, sys) == << [call |-> call, action |-> action, mode |-> sys.perform.mode] >>

\* perform_request! that parks without remembering the key
perform_request_Forgets(P, W, sys, action, aft_pos) ==
    [(IF sys.perform.mode = "Async"
      THEN Normal(P, [W EXCEPT !.requests[sys.key] = Pending])
      ELSE process_request(P, W, sys.perform.result, action, aft_pos))
     EXCEPT !.performed = Performed("perform_request", action, sys)]

\* perform_request!: sys is the answer of System::perform_request and the
\* key it hands out when the answer is Async
perform_request(P, W, sys, action, aft_pos) ==
    [(IF sys.perform.mode = "Async"
      THEN Normal([P EXCEPT !.defer = Some(DeferRequest(sys.key, aft_pos, action))],
                  [W EXCEPT !.requests[sys.key] = Pending])
      ELSE process_request(P, W, sys.perform.result, action, aft_pos))
     EXCEPT !.performed = Performed("perform_request", action, sys)]

\* perform_command!
perform_command(P, W, sys, aft_pos) ==
    [(IF sys.perform.mode = "Async"
      THEN Normal([P EXCEPT !.defer = Some(DeferCommand(sys.key, aft_pos))],
                  [W EXCEPT !.requests[sys.key] = Pending])
      ELSE process_command(P, W, sys.perform.result, aft_pos))
     EXCEPT !.performed = Performed("perform_command", "Command", sys)]

\* Instruction::Print
InsSay(P, W, ins, aft_pos, sys) ==
    IF P.value_stack = <<>> THEN Panicked(P, W)
    ELSE perform_command(Pop(P), W, sys, aft_pos)

\* what System::send_reply and System::send_message return when they fail
SendFailed == [cause |-> "NotSupported"]

\* the values of a message: one value popped and converted to JSON, then one
\* field name popped from the meta stack, for each
RECURSIVE MessageValues(_, _)
MessageValues(P, n) ==
    IF n = 0 THEN Normal(P, None)
    ELSE IF P.value_stack = <<>> THEN Panicked(P, None)
    ELSE LET value == to_json(Last(P.value_stack))
             Q == Pop(P)
         IN IF ~value.ok THEN Raised(Q, None, value.err)
            ELSE IF Q.meta_stack = <<>> THEN Panicked(Q, None)
            ELSE MessageValues([Q EXCEPT !.meta_stack = Front(@)], n - 1)

\* Instruction::SendNetworkMessage; send_message hands out a key when a reply
\* is expected
InsSendNetworkMessage(P, W, ins, aft_pos, sys) ==
    IF P.value_stack = <<>> THEN Panicked(P, W)
    ELSE LET targets == Last(P.value_stack)
             Q == Pop(P)
         IN IF targets.type # "String"
            THEN Raised(Q, W, [cause |-> "VariadicConversionError", got |-> targets.type,
                               expected |-> "String"])
            ELSE LET v == MessageValues(Q, ins.values) IN
                 IF v.res # "Normal" THEN [v EXCEPT !.world = W]
                 ELSE IF ~sys.send_ok THEN Raised(v.proc, W, SendFailed)
                 ELSE IF ins.expect_reply
                 THEN Normal([v.proc EXCEPT !.defer = Some(DeferMessageReply(sys.key, aft_pos))],
                             [W EXCEPT !.requests[sys.key] = Pending])
                 ELSE Normal(Advance(v.proc, aft_pos), W)

\* Instruction::Ask
InsAsk(P, W, ins, aft_pos, sys) ==
    IF P.value_stack = <<>> THEN Panicked(P, W)
    ELSE perform_request(Pop(P), W, sys, "Input", aft_pos)

\* Instruction::CallRpc: args names from the meta stack and as many values
\* from the value stack, then the request
InsCallRpc(P, W, ins, aft_pos, sys) ==
    IF W.debug /\ Len(P.meta_stack) # ins.args THEN Panicked(P, W)
    ELSE IF Len(P.meta_stack) < ins.args \/ Len(P.value_stack) < ins.args
    THEN Panicked(P, W)
    ELSE perform_request(
            [P EXCEPT !.meta_stack = Truncate(@, Len(@) - ins.args),
                      !.value_stack = Truncate(@, Len(@) - ins.args)],
            W, sys, "Rpc", aft_pos)

\* Instruction::PushRpcError
InsPushRpcError(P, W, ins, aft_pos) ==
    Normal(Advance(Push(P, IF P.last_rpc_error = None THEN empty_string
                           ELSE P.last_rpc_error.val), aft_pos), W)

\* Instruction::Syscall with VariadicLen::Fixed(len): the arguments are
\* drained, then the name is popped
InsSyscall(P, W, ins, aft_pos, sys) ==
    IF Len(P.value_stack) < ins.len + 1 THEN Panicked(P, W)
    ELSE LET Q == [P EXCEPT !.value_stack = Truncate(@, Len(@) - ins.len)]
             name == to_string(Last(Q.value_stack))
         IN IF ~name.ok THEN Raised(Pop(Q), W, name.err)
            ELSE perform_request(Pop(Q), W, sys, "Syscall", aft_pos)

\* Instruction::PushSyscallError
InsPushSyscallError(P, W, ins, aft_pos) ==
    Normal(Advance(Push(P, IF P.last_syscall_error = None THEN empty_string
                           ELSE P.last_syscall_error.val), aft_pos), W)

\* SendNetworkReply that sends without taking the key
InsSendNetworkReply_KeepsKey(P, W, ins, aft_pos, sys) ==
    IF P.value_stack = <<>> THEN Panicked(P, W)
    ELSE LET value == to_json(Last(P.value_stack))
             Q == Pop(P)
         IN IF ~value.ok THEN Raised(Q, W, value.err)
            ELSE IF Q.reply_key = None THEN Normal(Advance(Q, aft_pos), W)
            ELSE [Normal(Advance(Q, aft_pos), W) EXCEPT
                     !.sent = << [key |-> Q.reply_key.val, value |-> value.val] >>]

\* Instruction::SendNetworkReply: the value is popped and converted; the
\* reply key, if the process holds one, is taken and the reply is sent
InsSendNetworkReply(P, W, ins, aft_pos, sys) ==
    IF P.value_stack = <<>> THEN Panicked(P, W)
    ELSE LET value == to_json(Last(P.value_stack))
             Q == Pop(P)
         IN IF ~value.ok THEN Raised(Q, W, value.err)
            ELSE IF Q.reply_key = None THEN Normal(Advance(Q, aft_pos), W)
            ELSE LET R == [Q EXCEPT !.reply_key = None]
                     call == << [key |-> Q.reply_key.val, value |-> value.val] >>
                 IN IF sys.send_ok
                    THEN [Normal(Advance(R, aft_pos), W) EXCEPT !.sent = call]
                    ELSE [Raised(R, W, SendFailed) EXCEPT !.sent = call]

\* milliseconds per second (Sleep multiplies the popped seconds by 1000.0)
MsPerSecond == 1000

\* Sleep that parks the process on the clock whatever the duration
InsSleep_AlwaysDefers(P, W, ins, aft_pos) ==
    IF P.value_stack = <<>> THEN Panicked(P, W)
    ELSE LET n == to_number(Last(P.value_stack)) IN
         IF ~n.ok THEN Raised(Pop(P), W, n.err)
         ELSE LET ms == n.val * MsPerSecond IN
              IF ms <= 0
              THEN Yielded([Pop(P) EXCEPT !.defer = Some(DeferSleep(W.time_ms, aft_pos))], W)
              ELSE Normal([Pop(P) EXCEPT !.defer =
                              Some(DeferSleep(W.time_ms + ms, aft_pos))], W)

\* Instruction::Sleep
InsSleep(P, W, ins, aft_pos) ==
    IF P.value_stack = <<>> THEN Panicked(P, W)
    ELSE LET n == to_number(Last(P.value_stack)) IN
         IF ~n.ok THEN Raised(Pop(P), W, n.err)
         ELSE LET ms == n.val * MsPerSecond IN
              IF ms <= 0 THEN Yielded(Advance(Pop(P), aft_pos), W)
              ELSE Normal([Pop(P) EXCEPT !.defer =
                              Some(DeferSleep(W.time_ms + ms, aft_pos))], W)


(***************************************************************************)
(* step_impl and step                                                      *)
(***************************************************************************)
\* dropping a Defer: a Request drops its key, and with it the result the
\* system holds for the key; a Barrier drops its weak handle
DropDefer(W, defer) ==
    IF defer = None THEN W
    ELSE CASE defer.val.kind \in {"Request", "Command", "MessageReply"} ->
                [W EXCEPT !.requests[defer.val.key] = NoRequest]
           [] defer.val.kind = "Barrier" ->
                [W EXCEPT !.weak[defer.val.condition] = @ - 1]
           [] OTHER -> W

\* a poll that takes a pending operation for a finished one
PollDefer_Impatient(P, W) ==
    IF P.defer = None THEN [done |-> FALSE, proc |-> P, world |-> W, answers |-> <<>>]
    ELSE LET d == P.defer.val IN
         IF d.kind = "Request" /\ W.requests[d.key].st # "Pending"
         THEN [done |-> TRUE, out |-> Panicked(P, W)]
         ELSE [done |-> FALSE, world |-> DropDefer(W, P.defer), answers |-> <<>>,
               proc |-> [P EXCEPT !.pos = d.aft_pos, !.defer = None]]

\* the match on self.defer at the head of step_impl: either the step ends
\* here (the operation is pending, or its completion is an error) or the
\* process goes on from aft_pos
PollDefer(P, W) ==
    IF P.defer = None THEN [done |-> FALSE, proc |-> P, world |-> W, answers |-> <<>>]
    ELSE LET d == P.defer.val IN
         CASE d.kind = "Sleep" ->
                IF W.time_ms >= d.until
                THEN [done |-> FALSE, world |-> W, answers |-> <<>>,
                      proc |-> [P EXCEPT !.pos = d.aft_pos, !.defer = None]]
                ELSE [done |-> TRUE, out |-> Yielded(P, W)]
           [] d.kind = "Barrier" ->
                IF is_completed(W, d.condition)
                THEN [done |-> FALSE, world |-> DropDefer(W, P.defer), answers |-> <<>>,
                      proc |-> [P EXCEPT !.pos = d.aft_pos, !.defer = None]]
                ELSE [done |-> TRUE, out |-> Yielded(P, W)]
           [] d.kind \in {"Request", "Command"} ->
                LET polled == poll(W.requests[d.key])
                    r == polled.ret
                    taken == [W EXCEPT !.requests[d.key] = polled.cell]
                IN CASE r.st = "Pending" -> [done |-> TRUE, out |-> Yielded(P, taken)]
                     [] r.st = "Completed" ->
                          LET o == IF d.kind = "Command"
                                   THEN process_command(P, taken, r.result, d.aft_pos)
                                   ELSE process_request(P, taken, r.result, d.action, d.aft_pos) IN
                          IF o.res = "Err" THEN [done |-> TRUE, out |-> o]
                          ELSE [done |-> FALSE, world |-> DropDefer(o.world, P.defer),
                                answers |-> o.answers,
                                proc |-> [o.proc EXCEPT !.defer = None]]
                     [] OTHER -> [done |-> TRUE, out |-> Panicked(P, W)]
           [] d.kind = "MessageReply" ->
                LET polled == poll(W.requests[d.key])
                    r == polled.ret
                    taken == [W EXCEPT !.requests[d.key] = polled.cell]
                IN CASE r.st = "Pending" -> [done |-> TRUE, out |-> Yielded(P, taken)]
                     [] r.st = "Completed" ->
                          LET value == IF r.result = None THEN [ok |-> TRUE, val |-> empty_string]
                                       ELSE from_json(r.result.val) IN
                          IF ~value.ok THEN [done |-> TRUE, out |-> Raised(P, taken, value.err)]
                          ELSE [done |-> FALSE, world |-> DropDefer(taken, P.defer),
                                answers |-> <<>>,
                                proc |-> [Push(P, value.val) EXCEPT !.pos = d.aft_pos, !.defer = None]]
                     [] OTHER -> [done |-> TRUE, out |-> Panicked(P, W)]

\* Instruction::read: the instruction at pos and the position after it
InstructionRead(code, pos) ==
    IF pos \in 0..(Len(code) - 1)
    THEN Some([ins |-> code[pos + 1], aft_pos |-> pos + 1])
    ELSE None

\* the match on the instruction in step_impl
Execute(P, W, ins, aft_pos, sys) ==
    CASE ins.op = "Yield" -> InsYield(P, W, ins, aft_pos)
      [] ins.op = "WarpStart" -> InsWarpStart(P, W, ins, aft_pos)
      [] ins.op = "WarpStop" -> InsWarpStop(P, W, ins, aft_pos)
      [] ins.op = "PushInt" -> InsPushInt(P, W, ins, aft_pos)
      [] ins.op = "PushString" -> InsPushString(P, W, ins, aft_pos)
      [] ins.op = "PushVariable" -> InsPushVariable(P, W, ins, aft_pos)
      [] ins.op = "PopValue" -> InsPopValue(P, W, ins, aft_pos)
      [] ins.op = "Assign" -> InsAssign(P, W, ins, aft_pos)
      [] ins.op = "BinaryOp" -> InsBinaryOp(P, W, ins, aft_pos)
      [] ins.op = "MetaPush" -> InsMetaPush(P, W, ins, aft_pos)
      [] ins.op = "Call" -> InsCall(P, W, ins, aft_pos)
      [] ins.op = "MakeClosure" -> InsMakeClosure(P, W, ins, aft_pos)
      [] ins.op = "CallClosure" -> InsCallClosure(P, W, ins, aft_pos)
      [] ins.op = "Return" -> InsReturn(P, W, ins, aft_pos)
      [] ins.op = "PushHandler" -> InsPushHandler(P, W, ins, aft_pos)
      [] ins.op = "PopHandler" -> InsPopHandler(P, W, ins, aft_pos)
      [] ins.op = "Throw" -> InsThrow(P, W, ins, aft_pos)
      [] ins.op = "Broadcast" -> InsBroadcast(P, W, ins, aft_pos)
      [] ins.op = "Ask" -> InsAsk(P, W, ins, aft_pos, sys)
      [] ins.op = "SendNetworkMessage" -> InsSendNetworkMessage(P, W, ins, aft_pos, sys)
      [] ins.op = "Print" -> InsSay(P, W, ins, aft_pos, sys)
      [] ins.op = "Sleep" -> InsSleep(P, W, ins, aft_pos)
      [] ins.op = "CallRpc" -> InsCallRpc(P, W, ins, aft_pos, sys)
      [] ins.op = "PushRpcError" -> InsPushRpcError(P, W, ins, aft_pos)
      [] ins.op = "Syscall" -> InsSyscall(P, W, ins, aft_pos, sys)
      [] ins.op = "PushSyscallError" -> InsPushSyscallError(P, W, ins, aft_pos)
      [] ins.op = "SendNetworkReply" -> InsSendNetworkReply(P, W, ins, aft_pos, sys)

\* step_impl that ends the step after a completed poll
FetchExecute_PollOnly(d, code, polled, sys) ==
    IF d.done THEN [d.out EXCEPT !.polled = polled]
    ELSE IF polled THEN [Normal(d.proc, d.world) EXCEPT !.polled = polled]
    ELSE IF d.proc.call_stack = <<>> \/ InstructionRead(code, d.proc.pos) = None
    THEN Panicked(d.proc, d.world)
    ELSE [Execute(d.proc, d.world, code[d.proc.pos + 1], d.proc.pos + 1, sys)
            EXCEPT !.executed = TRUE,
                   !.op = code[d.proc.pos + 1].op, !.at = d.proc.pos]

\* step_impl after the poll d of the defer slot.  The locals of the top
\* frame are borrowed before the instruction is read: on an empty call stack
\* the unwrap panics.
FetchExecute(d, code, polled, sys) ==
    IF d.done THEN [d.out EXCEPT !.polled = polled]
    ELSE IF d.proc.call_stack = <<>>
    THEN [Panicked(d.proc, d.world) EXCEPT !.polled = polled]
    ELSE IF InstructionRead(code, d.proc.pos) = None
    THEN [Panicked(d.proc, d.world) EXCEPT !.polled = polled]
    ELSE [Execute(d.proc, d.world, code[d.proc.pos + 1], d.proc.pos + 1, sys)
            EXCEPT !.polled = polled, !.executed = TRUE,
                   !.op = code[d.proc.pos + 1].op, !.at = d.proc.pos,
                   !.answers = d.answers \o @,
                   !.woke = IF polled THEN Some(d.proc) ELSE None]

\* Process::step_impl
step_impl(P, W, code, sys) ==
    FetchExecute(PollDefer(P, W), code, P.defer # None, sys)

\* the instruction step_impl is about to execute, "none" if it gets to none
NextOp(d, code) ==
    IF d.done \/ d.proc.call_stack = <<>> \/ InstructionRead(code, d.proc.pos) = None
    THEN "none"
    ELSE code[d.proc.pos + 1].op

\* an unwind that leaves the value stack as the error found it
Unwind_KeepsValues(P, err) ==
    LET h == Last(P.handler_stack)
        frames == Truncate(P.call_stack, h.call_stack_size)
    IN [P EXCEPT
          !.warp_counter = h.warp_counter,
          !.call_stack = [frames EXCEPT ![Len(frames)].locals =
                             redefine_or_define(@, h.var, Unique(StringV(ErrorText(err))))],
          !.pos = h.pos]

\* an unwind that also removes the handler it unwinds to
Unwind_PopsHandler(P, err) ==
    LET h == Last(P.handler_stack)
        frames == Truncate(P.call_stack, h.call_stack_size)
    IN [P EXCEPT
          !.warp_counter = h.warp_counter,
          !.call_stack = [frames EXCEPT ![Len(frames)].locals =
                             redefine_or_define(@, h.var, Unique(StringV(ErrorText(err))))],
          !.value_stack = Truncate(@, h.value_stack_size),
          !.handler_stack = Front(@),
          !.pos = h.pos]

\* the recovery of step: unwind to the handler on top of the handler stack
Unwind(P, err) ==
    LET h == Last(P.handler_stack)
        frames == Truncate(P.call_stack, h.call_stack_size)
        top == Len(frames)
        msg == ErrorText(err)
    IN [P EXCEPT
          !.warp_counter = h.warp_counter,
          !.call_stack = [frames EXCEPT ![top].locals =
                             redefine_or_define(@, h.var, Unique(StringV(msg)))],
          !.value_stack = Truncate(@, h.value_stack_size),
          !.pos = h.pos]

\* drain(n..) panics when n exceeds the length; last_mut().unwrap() panics on
\* an empty call stack
UnwindPanics(P) ==
    LET h == Last(P.handler_stack) IN
    \/ h.call_stack_size > Len(P.call_stack)
    \/ h.value_stack_size > Len(P.value_stack)
    \/ h.call_stack_size = 0

\* a drop that leaves the strong count as it is
DropBarrier_Leaks(W, barrier) == W

\* dropping a Barrier handle: the strong count of its Rc goes down by one
DropBarrier(W, barrier) ==
    IF barrier = None THEN W
    ELSE [W EXCEPT !.strong[barrier.val] = @ - 1]

\* going idle without giving up the barrier
Idle_KeepsBarrier(P) ==
    [P EXCEPT !.running = FALSE, !.reply_key = None]

\* the end of step on Terminate or Err: back to idle
Idle(P) ==
    [P EXCEPT !.running = FALSE, !.barrier = None, !.reply_key = None]

\* step, on an Err of step_impl with a handler on the stack: the unwind
Recover(r) ==
    IF r.res = "Err" /\ r.proc.handler_stack # <<>>
    THEN IF UnwindPanics(r.proc)
         THEN [r EXCEPT !.res = "Panic"]
         ELSE [r EXCEPT !.proc = Unwind(r.proc, r.err),
                        !.res = "Normal", !.recovered = TRUE]
    ELSE r

\* step, on Terminate or Err: the process goes idle and drops its barrier
Finish(r) ==
    IF r.res \in {"Terminate", "Err"}
    THEN [r EXCEPT !.proc = Idle(r.proc),
                   !.world = DropBarrier(r.world, r.proc.barrier)]
    ELSE r

\* Process::step
step(P, W, code, sys) == Finish(Recover(step_impl(P, W, code, sys)))

\* a step whose error stops every process of the host
StepProcs_StopsAll(ps, p, o) ==
    [q \in DOMAIN ps |->
        IF q = p THEN (IF o.res = "Panic" THEN ps[q] ELSE o.proc)
        ELSE IF o.res = "Err" THEN [ps[q] EXCEPT !.running = FALSE]
        ELSE ps[q]]

\* step takes &mut self: of the host's processes only the receiver is
\* written; a panic unwinds out of the call and the process is not used again
StepProcs(ps, p, o) ==
    [ps EXCEPT ![p] = IF o.res = "Panic" THEN @ ELSE o.proc]

(***************************************************************************)
(* The state machine: a host that constructs the processes, initializes    *)
(* them, steps them, answers their requests and advances the clock.        *)
(***************************************************************************)
VARIABLES
    body,    \* the statements of F in the bytecode image
    procs,   \* the Process objects
    world,   \* GlobalContext, arena and System state shared by the processes
    last,    \* what the last call of the host was and what it returned
    seen     \* what the system has seen of each process and of each key

vars == <<body, procs, world, last, seen>>

\* seen.given[p]: the reply key p was last initialized with;
\* seen.delivered[p]: the result of the latest RPC and of the latest syscall
\* that p processed since its initialize; seen.replies[p]: the send_reply
\* calls p made since its initialize; seen.completed[k]: the value of the
\* first complete that succeeded on the AsyncResult of key k;
\* seen.taken[k]: the values that polls of it returned as Completed
NothingSeen ==
    [given |-> [p \in Procs |-> None],
     delivered |-> [p \in Procs |-> [a \in {"Rpc", "Syscall"} |-> None]],
     replies |-> [p \in Procs |-> <<>>],
     completed |-> [p \in Procs |-> None],
     taken |-> [p \in Procs |-> <<>>]]

RECURSIVE Delivered(_, _)
Delivered(d, answers) ==
    IF answers = <<>> THEN d
    ELSE Delivered([d EXCEPT ![Head(answers).action] = Some(Head(answers).result)],
                   Tail(answers))

\* the system's view after the step o of p
Observe(sn, p, o) ==
    IF o.res = "Panic" THEN sn
    ELSE [sn EXCEPT !.delivered[p] = Delivered(@, o.answers),
                    !.replies[p] = @ \o o.sent]

\* the system's view of a process that starts anew with the reply key
Started(sn, p, reply_key) ==
    [sn EXCEPT !.given[p] = reply_key,
               !.delivered[p] = [a \in {"Rpc", "Syscall"} |-> None],
               !.replies[p] = <<>>]

\* Settings (runtime.rs)
Settings ==
    [max_call_depth |-> MaxCallDepth, rpc_error_scheme |-> "Hard",
     syscall_error_scheme |-> "Hard"]

NoCall == [kind |-> "none"]
\* was: the state initialize was called in
InitCall(p, locals, barrier, reply_key, P) ==
    [kind |-> "initialize", p |-> p, locals |-> locals, barrier |-> barrier,
     reply_key |-> reply_key,
     was |-> [running |-> P.running, in_call |-> Len(P.call_stack) > 1,
              in_warp |-> P.warp_counter > 0, parked |-> P.defer # None,
              answered |-> P.last_answer # None]]
StepCall(p, o) ==
    [kind |-> "step", p |-> p, res |-> o.res, err |-> o.err, result |-> o.result,
     polled |-> o.polled, executed |-> o.executed, recovered |-> o.recovered,
     op |-> o.op, at |-> o.at, answers |-> o.answers, sent |-> o.sent,
     woke |-> o.woke, performed |-> o.performed]

\* a panic unwinds out of the host's call: nothing runs after it
Aborted == last.kind = "step" /\ last.res = "Panic"

InitWorld(debug) ==
    [settings |-> Settings, debug |-> debug, time_ms |-> 0, cells |-> <<>>,
     globals |-> EmptyTable, fields |-> EmptyTable,
     strong |-> [b \in 1..MaxBarriers |-> 0], weak |-> [b \in 1..MaxBarriers |-> 0],
     held |-> [b \in 1..MaxBarriers |-> 0],
     requests |-> [p \in Procs |-> NoRequest]]

\* the arguments a host passes to initialize: the locals, whether it passes
\* a barrier, and the reply key
InitArgs ==
    { [locals |-> EmptyTable, barrier |-> FALSE, reply_key |-> None],
      [locals |-> redefine_or_define(EmptyTable, "x", Unique(NumberV(1))),
       barrier |-> FALSE, reply_key |-> Some("key")],
      [locals |-> redefine_or_define(EmptyTable, "x", Unique(NumberV(1))),
       barrier |-> TRUE, reply_key |-> Some("key2")] }

\* what the system may answer a request with, and how
Results == {OkResult(StringV("yes")), ErrResult("fail")}
Performs == {Sync(r) : r \in Results} \cup {Async}

\* the answers of the system that the next step of p can observe; the key of
\* an asynchronous request is the requester's (a process has one defer slot,
\* so one live request)
Responses(p) ==
    LET op == NextOp(PollDefer(procs[p], world), Code(body)) IN
    IF op \in {"Ask", "Print", "CallRpc", "Syscall"}
    THEN {[key |-> p, perform |-> x, send_ok |-> TRUE] : x \in Performs}
    ELSE IF op \in {"SendNetworkReply", "SendNetworkMessage"}
    THEN {[key |-> p, perform |-> Async, send_ok |-> b] : b \in BOOLEAN}
    ELSE {[key |-> p, perform |-> Async, send_ok |-> TRUE]}

\* Barrier::new needs an allocation: a Broadcast that waits is explored
\* only while one is free
CanAllocate(p) ==
    \A d \in {PollDefer(procs[p], world)} :
        (NextOp(d, Code(body)) = "Broadcast" /\ Code(body)[d.proc.pos + 1].wait)
        => FreeBarriers(d.world) # {}

\* host: proc.initialize(locals, barrier, reply_key), with no barrier or with
\* a Barrier::new() of its own that it moves into the call; the assignments
\* of initialize drop the barrier and the defer the process held
InitializeWith(p, a) ==
    /\ ~Aborted
    /\ a.barrier => FreeBarriers(world) # {}
    /\ LET barrier == IF a.barrier THEN Some(NewBarrier(world)) ELSE None
           W1 == IF a.barrier THEN [world EXCEPT !.strong[barrier.val] = 1]
                 ELSE world
           W2 == DropDefer(DropBarrier(W1, procs[p].barrier), procs[p].defer)
       IN /\ procs' = [procs EXCEPT ![p] = initialize(@, a.locals, barrier, a.reply_key)]
          /\ world' = W2
          /\ last' = InitCall(p, a.locals, barrier, a.reply_key, procs[p])
    /\ seen' = Started(seen, p, a.reply_key)
    /\ UNCHANGED body

Initialize(p) == \E a \in InitArgs : InitializeWith(p, a)

\* host: proc.step(mc)
Step(p) ==
    /\ ~Aborted
    /\ Len(procs[p].call_stack) < MaxCallDepth + ExtraFrames
    /\ CanAllocate(p)
    /\ \E sys \in Responses(p) :
         \E o \in {step(procs[p], world, Code(body), sys)} :
          /\ procs' = StepProcs(procs, p, o)
          /\ world' = IF o.res = "Panic" THEN world ELSE o.world
          /\ last' = StepCall(p, o)
          /\ seen' = Observe(seen, p, o)
    /\ UNCHANGED body

\* system: an asynchronous request completes
Complete(p) ==
    /\ ~Aborted
    /\ world.requests[p] = Pending
    /\ \E r \in Results :
          world' = [world EXCEPT !.requests[p] = complete(@, r).cell]
    /\ last' = NoCall
    /\ UNCHANGED <<body, procs, seen>>

\* the host clock advances by a second; only a pending Sleep reads it, so
\* it is advanced only while some process waits for it
Tick ==
    /\ ~Aborted
    /\ world.time_ms < MaxTime * MsPerSecond
    /\ \E p \in Procs : /\ procs[p].defer # None
                       /\ procs[p].defer.val.kind = "Sleep"
                       /\ procs[p].defer.val.until > world.time_ms
    /\ world' = [world EXCEPT !.time_ms = @ + MsPerSecond]
    /\ last' = NoCall
    /\ UNCHANGED <<body, procs, seen>>

\* Spec: the host drives one process (the first); the others stay as
\* constructed
Init ==
    /\ body \in Bodies
    /\ \E start_pos \in EntryPoints :
          procs = [p \in Procs |-> NewProcess(IF p = 1 THEN start_pos ELSE 0)]
    /\ \E debug \in BOOLEAN : world = InitWorld(debug)
    /\ last = NoCall
    /\ seen = NothingSeen

Next ==
    \/ Initialize(1)
    \/ Step(1)
    \/ Complete(1)
    \/ Tick

Spec == Init /\ [][Next]_vars

(***************************************************************************)
(* SpecSched: a host that runs every process, each started once (as        *)
(* Project does: one Process::new and one initialize per script run) on    *)
(* the same script, and steps them in any interleaving.                    *)
(***************************************************************************)
\* the scripts of SpecSched: one statement, repeated, and a throw at the end
SchedStatements == { YieldStmt, ThrowStmt, SleepStmt(1), TryBlock }
SchedBodies ==
    { [i \in 1..BodyLen |-> IF i = BodyLen THEN ThrowStmt ELSE s] :
        s \in SchedStatements }

\* the arguments every script is started with
StartArgs ==
    [locals |-> redefine_or_define(EmptyTable, "x", Unique(NumberV(1))),
     barrier |-> FALSE, reply_key |-> Some("key")]

Start(p) ==
    /\ procs[p] = NewProcess(procs[p].start_pos)
    /\ InitializeWith(p, StartArgs)

InitSched ==
    /\ body \in SchedBodies
    /\ \E start_pos \in EntryPoints :
          procs = [p \in Procs |-> NewProcess(start_pos)]
    /\ \E debug \in BOOLEAN : world = InitWorld(debug)
    /\ last = NoCall
    /\ seen = NothingSeen

NextSched ==
    \/ \E p \in Procs : Start(p)
    \/ \E p \in Procs : Step(p)
    \/ Tick

SpecSched == InitSched /\ [][NextSched]_vars

(***************************************************************************)
(* SpecBcast: a host that runs a sender (the first process, on F) and      *)
(* receivers (the other processes, on the script `return x`).  The host    *)
(* keeps the Barrier that a Broadcast step returns, starts receivers with  *)
(* clones of it, and drops its own handle when it has started them.        *)
(***************************************************************************)
BcastStatements == { BroadcastWaitStmt, BroadcastStmt, SleepStmt(1), AskStmt }
BcastBodies == [1..BodyLen -> BcastStatements]

\* the barriers the host holds a handle of
HeldBarriers == {b \in DOMAIN world.held : world.held[b] > 0}

\* host: starts the receiver q, with a clone of a barrier it holds or with
\* no barrier
Deliver(q) ==
    /\ ~Aborted
    /\ q # 1
    /\ ~procs[q].running
    /\ \E barrier \in {None} \cup {Some(b) : b \in HeldBarriers} :
         LET W1 == IF barrier = None THEN world ELSE clone(world, barrier.val)
             W2 == DropDefer(DropBarrier(W1, procs[q].barrier), procs[q].defer)
         IN /\ procs' = [procs EXCEPT ![q] = initialize(@, StartArgs.locals, barrier, None)]
            /\ world' = W2
            /\ last' = InitCall(q, StartArgs.locals, barrier, None, procs[q])
    /\ seen' = Started(seen, q, None)
    /\ UNCHANGED body

\* host: drops a Barrier handle it holds
Release(b) ==
    /\ ~Aborted
    /\ world.held[b] > 0
    /\ world' = [world EXCEPT !.held[b] = @ - 1, !.strong[b] = @ - 1]
    /\ last' = NoCall
    /\ UNCHANGED <<body, procs, seen>>

InitBcast ==
    /\ body \in BcastBodies
    /\ procs = [p \in Procs |-> NewProcess(IF p = 1 THEN FEntry ELSE TailEntry(body))]
    /\ \E debug \in BOOLEAN : world = InitWorld(debug)
    /\ last = NoCall
    /\ seen = NothingSeen

NextBcast ==
    \/ Start(1)
    \/ \E p \in Procs : Step(p)
    \/ \E q \in Procs : Deliver(q)
    \/ \E b \in 1..MaxBarriers : Release(b)
    \/ Complete(1)
    \/ Tick

SpecBcast == InitBcast /\ [][NextBcast]_vars

(***************************************************************************)
(* SpecNet: the host drives one process on scripts that call RPCs and      *)
(* syscalls, read the error slots and send replies, under each pair of     *)
(* error schemes, in a build with debug assertions (which none of these    *)
(* scripts fails).                                                         *)
(***************************************************************************)
NetStatements ==
    { RpcStmt, SyscallStmt, RpcErrorStmt, RpcCheckStmt, SyscallErrorStmt,
      ReplyStmt, TryBlock }
NetBodies == [1..BodyLen -> NetStatements]

ErrorSchemes == {"Soft", "Hard"}

InitNet ==
    /\ body \in NetBodies
    /\ \E start_pos \in {FEntry, ReplyEntry(body)} :
          procs = [p \in Procs |-> NewProcess(IF p = 1 THEN start_pos ELSE 0)]
    /\ \E rpc \in ErrorSchemes, syscall \in ErrorSchemes :
          world = [InitWorld(TRUE) EXCEPT !.settings.rpc_error_scheme = rpc,
                                          !.settings.syscall_error_scheme = syscall]
    /\ last = NoCall
    /\ seen = NothingSeen

NextNet ==
    \/ Initialize(1)
    \/ Step(1)
    \/ Complete(1)

SpecNet == InitNet /\ [][NextNet]_vars

(***************************************************************************)
(* SpecAsync: the system owns one AsyncResult per key, created Pending,    *)
(* and calls complete and poll on them in any order.                       *)
(***************************************************************************)
CompleteCall(k, value, c) ==
    [kind |-> "complete", key |-> k, value |-> value, ok |-> c.ok,
     back |-> IF c.ok THEN None ELSE Some(c.back)]
PollCall(k, q) == [kind |-> "poll", key |-> k, ret |-> q.ret]

\* cell.complete(r)
CellComplete(k) ==
    /\ \E r \in Results :
         \E c \in {complete(world.requests[k], r)} :
          /\ world' = [world EXCEPT !.requests[k] = c.cell]
          /\ last' = CompleteCall(k, r, c)
          /\ seen' = IF c.ok /\ seen.completed[k] = None
                     THEN [seen EXCEPT !.completed[k] = Some(r)]
                     ELSE seen
    /\ UNCHANGED <<body, procs>>

\* cell.poll()
CellPoll(k) ==
    /\ \E q \in {poll(world.requests[k])} :
          /\ world' = [world EXCEPT !.requests[k] = q.cell]
          /\ last' = PollCall(k, q)
          /\ seen' = IF q.ret.st = "Completed"
                     THEN [seen EXCEPT !.taken[k] = Append(@, q.ret.result)]
                     ELSE seen
    /\ UNCHANGED <<body, procs>>

\* AsyncResult::new() for every key
InitAsync ==
    /\ body = [i \in 1..BodyLen |-> YieldStmt]
    /\ procs = [p \in Procs |-> NewProcess(0)]
    /\ world = [InitWorld(TRUE) EXCEPT !.requests = [k \in Procs |-> Pending]]
    /\ last = NoCall
    /\ seen = NothingSeen

NextAsync ==
    \/ \E k \in Procs : CellComplete(k)
    \/ \E k \in Procs : CellPoll(k)

SpecAsync == InitAsync /\ [][NextAsync]_vars

(***************************************************************************)
(* SpecShared: a SymbolTable with the variables x and y, and the handles   *)
(* that alias calls returned (the captures of closures).  The host sets    *)
(* and aliases variables through the table and through the handles, and    *)
(* redefines variables, in any order.                                      *)
(***************************************************************************)
\* Shared::alias_inner, returning a handle that leaves the Shared as it was
alias_inner_Copies(shared, heap) ==
    [shared |-> shared, cells |-> Append(heap, SharedGet(shared, heap)),
     inner |-> Len(heap) + 1]

\* Shared::alias_inner: a Unique value moves into a new cell and the Shared
\* becomes Aliased; the cell is returned
alias_inner(shared, heap) ==
    IF shared.shared = "Unique"
    THEN [shared |-> Aliased(Len(heap) + 1), cells |-> Append(heap, shared.value),
          inner |-> Len(heap) + 1]
    ELSE [shared |-> shared, cells |-> heap, inner |-> shared.cell]

\* Shared::alias
alias(shared, heap) ==
    LET a == alias_inner(shared, heap) IN
    [shared |-> a.shared, cells |-> a.cells, alias |-> Aliased(a.inner)]

SharedVars == {"x", "y"}
SharedValues == {NumberV(0), NumberV(1)}

\* a Shared the host can reach: the binding of a variable or a handle
InTable(var) == [at |-> "table", var |-> var, idx |-> 0]
InHandles(i) == [at |-> "handle", var |-> "", idx |-> i]
SharedRefs(W) ==
    {InTable(n) : n \in DOMAIN W.table} \cup {InHandles(i) : i \in 1..Len(W.handles)}
SharedAt(W, ref) ==
    IF ref.at = "table" THEN W.table[ref.var] ELSE W.handles[ref.idx]
PutShared(W, ref, shared) ==
    IF ref.at = "table" THEN [W EXCEPT !.table[ref.var] = shared]
    ELSE [W EXCEPT !.handles[ref.idx] = shared]

\* the handles that alias the binding of var
AliasesOf(W, var) ==
    {i \in 1..Len(W.handles) :
        var \in DOMAIN W.table /\ W.handles[i] = W.table[var]}

\* shared.set(mc, value)
SetShared(ref, value) ==
    /\ \E s \in {set(SharedAt(world, ref), world.cells, value)} :
         world' = [PutShared(world, ref, s.shared) EXCEPT !.cells = s.cells]
    /\ last' = [kind |-> "set", via |-> ref, value |-> value]
    /\ UNCHANGED <<body, procs, seen>>

\* let handle = shared.alias(mc)
AliasShared(ref) ==
    /\ Len(world.handles) < MaxAliases
    /\ \E a \in {alias(SharedAt(world, ref), world.cells)} :
         /\ world' = [PutShared(world, ref, a.shared) EXCEPT
                         !.cells = a.cells, !.handles = Append(@, a.alias)]
         /\ last' = [kind |-> "alias", via |-> ref, ret |-> a.alias]
    /\ UNCHANGED <<body, procs, seen>>

\* table.redefine_or_define(var, Shared::Unique(value)); seen.stale keeps
\* the handles that aliased a binding which has been replaced
Redefine(var, value) ==
    /\ world' = [world EXCEPT
                    !.table = redefine_or_define(@, var, Unique(value))]
    /\ last' = [kind |-> "redefine", var |-> var, value |-> value]
    /\ seen' = [seen EXCEPT !.stale[var] = @ \cup AliasesOf(world, var)]
    /\ UNCHANGED <<body, procs>>

InitShared ==
    /\ body = [i \in 1..BodyLen |-> YieldStmt]
    /\ procs = [p \in Procs |-> NewProcess(0)]
    /\ \E v \in SharedValues :
         world = [table |-> redefine_or_define(EmptyTable, "x", Unique(v)),
                  handles |-> <<>>, cells |-> <<>>]
    /\ last = NoCall
    /\ seen = [stale |-> [n \in SharedVars |-> {}]]

NextShared ==
    \/ \E ref \in SharedRefs(world) : \E v \in SharedValues : SetShared(ref, v)
    \/ \E ref \in SharedRefs(world) : AliasShared(ref)
    \/ \E n \in SharedVars : \E v \in SharedValues : Redefine(n, v)

SpecShared == InitShared /\ [][NextShared]_vars

(***************************************************************************)
(* Lists (process.rs, mod ops).  A list value is a reference into a heap   *)
(* of VecDeques, so a list can contain itself; heap[i] holds the elements  *)
(* of the list i and an allocation appends to the heap.  The identity of a *)
(* list is its allocation; the identity of a scalar is the place it is     *)
(* stored at: <<l, i>> for the element i of the list l and <<0, k>> for    *)
(* the k-th operand of a call.                                             *)
(***************************************************************************)
ListV(l) == [type |-> "List", list |-> l]
BoolV(b) == [type |-> "Bool", bool |-> b]

\* Value::identity
identity(v, place) == IF v.type = "List" THEN <<v.list, 0>> ELSE place

\* str::to_lowercase on the strings of the model
to_lowercase(s) == IF s = "A" THEN "a" ELSE s

\* the two lists a scenario starts with
ListIds == {1, 2}

\* the calls after which a traversal is given up as endless.  check_eq_impl
\* goes past its cache once for each pair of lists, and then calls itself
\* once for each element; binary_op_impl and unary_op_impl make a list for
\* each pair of identities and mode, and a call for each of its elements
EqFuel == 2 + Cardinality(ListIds) * Cardinality(ListIds) * MaxListLen
MapFuel == 4 * (MaxListLen + 1) * (MaxListLen + 1)

\* BTreeSet::insert that forgets what it is given
CacheInsert_Forgets(cache, key) == [fresh |-> TRUE, cache |-> cache]

\* BTreeSet::insert: whether the key is new, and the set with it
CacheInsert(cache, key) == [fresh |-> key \notin cache, cache |-> cache \cup {key}]

\* the comparison of two values that are not both lists, in the order of
\* the match arms of check_eq_impl
ScalarEq(a, b) ==
    CASE a.type = "Bool" /\ b.type = "Bool" -> a.bool = b.bool
      [] a.type = "Bool" \/ b.type = "Bool" -> FALSE
      [] a.type = "Number" /\ b.type = "Number" -> a.num = b.num
      [] a.type = "String" /\ b.type = "String" ->
            to_lowercase(a.str) = to_lowercase(b.str)
      [] a.type = "Number" /\ b.type = "String" ->
            IF b.str \in DOMAIN ParsesAs THEN ParsesAs[b.str] = a.num
            ELSE b.str = ToString(a.num)
      [] a.type = "String" /\ b.type = "Number" ->
            IF a.str \in DOMAIN ParsesAs THEN ParsesAs[a.str] = b.num
            ELSE a.str = ToString(b.num)
      [] OTHER -> FALSE

RECURSIVE check_eq_impl(_, _, _, _, _, _)
RECURSIVE check_eq_zip(_, _, _, _, _)

\* ops::check_eq_impl on a at ia and b at ib; st carries the cache and the
\* calls left before the traversal is given up as endless (done = FALSE)
check_eq_impl(a, b, ia, ib, heap, st) ==
    IF st.fuel = 0 THEN [done |-> FALSE, eq |-> FALSE, st |-> st]
    ELSE LET c == CacheInsert(st.cache, <<ia, ib>>)
             s1 == [cache |-> c.cache, fuel |-> st.fuel - 1]
         IN IF ~c.fresh THEN [done |-> TRUE, eq |-> TRUE, st |-> s1]
            ELSE IF a.type = "List" /\ b.type = "List"
            THEN IF Len(heap[a.list]) # Len(heap[b.list])
                 THEN [done |-> TRUE, eq |-> FALSE, st |-> s1]
                 ELSE check_eq_zip(a.list, b.list, 1, heap, s1)
            ELSE [done |-> TRUE, eq |-> ScalarEq(a, b), st |-> s1]

\* the loop of the List arm over iter::zip(a, b), from element i on
check_eq_zip(la, lb, i, heap, st) ==
    IF i > Len(heap[la]) THEN [done |-> TRUE, eq |-> TRUE, st |-> st]
    ELSE LET x == heap[la][i]
             y == heap[lb][i]
             r == check_eq_impl(x, y, identity(x, <<la, i>>), identity(y, <<lb, i>>),
                                heap, st)
         IN IF ~r.done \/ ~r.eq THEN r
            ELSE check_eq_zip(la, lb, i + 1, heap, r.st)

\* ops::check_eq of the operands a (first) and b (second)
check_eq(a, b, heap) ==
    check_eq_impl(a, b, identity(a, <<0, 1>>), identity(b, <<0, 2>>), heap,
                  [cache |-> {}, fuel |-> EqFuel])

\* as_list and as_matrix
as_list(v, heap) == v.type = "List"
as_matrix(v, heap) ==
    /\ v.type = "List"
    /\ heap[v.list] # <<>>
    /\ heap[v.list][1].type = "List"

\* the scalar operation of UnaryOp::Neg
unary_scalar(x, op) ==
    LET n == to_number(x) IN
    IF n.ok THEN [ok |-> TRUE, val |-> NumberV(0 - n.val)] ELSE n

\* results of the elementwise operations: "ok" with a value, "err" with a
\* cause, or "endless" when the calls ran out
OpOk(v, st) == [res |-> "ok", val |-> v, st |-> st]
OpErr(e, st) == [res |-> "err", err |-> e, st |-> st]
OpEndless(st) == [res |-> "endless", st |-> st]

\* cache.get(&key) on a cache kept as a set of entries
CacheGet(cache, key) == {e \in cache : e.key = key}

\* GcCell::allocate of an empty list, entered into the cache under key
Allocate(st, key) ==
    [st EXCEPT !.heap = Append(@, <<>>),
               !.cache = @ \cup {[key |-> key, val |-> ListV(Len(st.heap) + 1)]}]

RECURSIVE binary_op_impl(_, _, _, _, _, _, _)
RECURSIVE binary_op_loop(_, _, _, _, _, _, _, _, _, _, _)

\* ops::binary_op_impl; st carries the heap, the cache and the calls left
binary_op_impl(a, b, ia, ib, matrix_mode, op, st) ==
    IF st.fuel = 0 THEN OpEndless(st)
    ELSE LET key == <<ia, ib, matrix_mode>>
             hit == CacheGet(st.cache, key)
             s1 == [st EXCEPT !.fuel = @ - 1]
             isA == IF matrix_mode THEN as_matrix(a, st.heap) ELSE as_list(a, st.heap)
             isB == IF matrix_mode THEN as_matrix(b, st.heap) ELSE as_list(b, st.heap)
         IN IF hit # {} THEN OpOk((CHOOSE e \in hit : TRUE).val, s1)
            ELSE IF isA /\ isB
            THEN LET na == Len(st.heap[a.list])
                     nb == Len(st.heap[b.list])
                 IN binary_op_loop(Len(st.heap) + 1, a, b, ia, ib, "both", 1,
                                   IF na < nb THEN na ELSE nb,
                                   matrix_mode, op, Allocate(s1, key))
            ELSE IF isA
            THEN binary_op_loop(Len(st.heap) + 1, a, b, ia, ib, "left", 1,
                                Len(st.heap[a.list]), matrix_mode, op, Allocate(s1, key))
            ELSE IF isB
            THEN binary_op_loop(Len(st.heap) + 1, a, b, ia, ib, "right", 1,
                                Len(st.heap[b.list]), matrix_mode, op, Allocate(s1, key))
            ELSE IF matrix_mode
            THEN binary_op_impl(a, b, ia, ib, FALSE, op, s1)
            ELSE LET r == binary_op(a, b, op) IN
                 IF r.ok THEN OpOk(r.val, s1) ELSE OpErr(r.err, s1)

\* the loops of binary_op_impl that fill the result list res from element
\* i on: over both lists, over a with b whole, or over b with a whole
binary_op_loop(res, a, b, ia, ib, side, i, n, matrix_mode, op, st) ==
    IF i > n THEN OpOk(ListV(res), st)
    ELSE LET x == IF side = "right" THEN a ELSE st.heap[a.list][i]
             y == IF side = "left" THEN b ELSE st.heap[b.list][i]
             ix == IF side = "right" THEN ia ELSE identity(x, <<a.list, i>>)
             iy == IF side = "left" THEN ib ELSE identity(y, <<b.list, i>>)
             r == binary_op_impl(x, y, ix, iy, matrix_mode, op, st)
         IN IF r.res # "ok" THEN r
            ELSE binary_op_loop(res, a, b, ia, ib, side, i + 1, n, matrix_mode, op,
                                [r.st EXCEPT !.heap[res] = Append(@, r.val)])

\* ops::binary_op on operands of which one may be a list: matrix mode, an
\* empty cache
binary_op_lists(a, b, op, heap) ==
    binary_op_impl(a, b, identity(a, <<0, 1>>), identity(b, <<0, 2>>), TRUE, op,
                   [heap |-> heap, cache |-> {}, fuel |-> MapFuel])

RECURSIVE unary_op_impl(_, _, _, _)
RECURSIVE unary_op_loop(_, _, _, _, _)

\* ops::unary_op_impl
unary_op_impl(x, ix, op, st) ==
    IF st.fuel = 0 THEN OpEndless(st)
    ELSE LET hit == CacheGet(st.cache, ix)
             s1 == [st EXCEPT !.fuel = @ - 1]
         IN IF hit # {} THEN OpOk((CHOOSE e \in hit : TRUE).val, s1)
            ELSE IF as_list(x, st.heap)
            THEN unary_op_loop(Len(st.heap) + 1, x, 1, op, Allocate(s1, ix))
            ELSE LET r == unary_scalar(x, op) IN
                 IF r.ok THEN OpOk(r.val, s1) ELSE OpErr(r.err, s1)

\* the loop of unary_op_impl that fills the result list res
unary_op_loop(res, x, i, op, st) ==
    IF i > Len(st.heap[x.list]) THEN OpOk(ListV(res), st)
    ELSE LET e == st.heap[x.list][i]
             r == unary_op_impl(e, identity(e, <<x.list, i>>), op, st)
         IN IF r.res # "ok" THEN r
            ELSE unary_op_loop(res, x, i + 1, op,
                               [r.st EXCEPT !.heap[res] = Append(@, r.val)])

\* ops::unary_op
unary_op(x, op, heap) ==
    unary_op_impl(x, identity(x, <<0, 1>>), op,
                  [heap |-> heap, cache |-> {}, fuel |-> MapFuel])

(***************************************************************************)
(* SpecLists: two lists of up to MaxListLen elements, each element a       *)
(* scalar or one of the two lists, on which the host calls once check_eq,  *)
(* binary_op or unary_op with the lists and scalars as operands.           *)
(***************************************************************************)
\* what the elements of the list l are drawn from
Elements(l) ==
    (IF l = 1 THEN {NumberV(1), StringV("a")} ELSE {StringV("1"), StringV("A")})
    \cup {ListV(k) : k \in ListIds}

ListsOf(l) == UNION {[1..n -> Elements(l)] : n \in 0..MaxListLen}

\* the operands of check_eq, and those of the elementwise operations
EqOperands ==
    {ListV(k) : k \in ListIds}
    \cup {NumberV(1), StringV("1"), StringV("a"), StringV("A"), BoolV(TRUE)}
MapOperands == {ListV(k) : k \in ListIds} \cup {NumberV(1)}

\* ops::check_eq(&a, &b)
CheckEq(a, b) ==
    /\ last = NoCall
    /\ \E r \in {check_eq(a, b, world.lists)} :
         last' = [kind |-> "check_eq", a |-> a, b |-> b, done |-> r.done, eq |-> r.eq]
    /\ UNCHANGED <<body, procs, world, seen>>

\* what the host sees of an elementwise operation: the result and the heap
\* with the lists it allocated
MapCall(kind, a, b, r) ==
    [kind |-> kind, a |-> a, b |-> b, res |-> r.res,
     val |-> IF r.res = "ok" THEN r.val ELSE BoolV(FALSE),
     heap |-> r.st.heap]

\* ops::binary_op(mc, system, &a, &b, BinaryOp::Add)
BinaryOnLists(a, b) ==
    /\ last = NoCall
    /\ \E r \in {binary_op_lists(a, b, "Add", world.lists)} :
         last' = MapCall("binary_op", a, b, r)
    /\ UNCHANGED <<body, procs, world, seen>>

\* ops::unary_op(mc, system, &x, UnaryOp::Neg)
UnaryOnLists(x) ==
    /\ last = NoCall
    /\ \E r \in {unary_op(x, "Neg", world.lists)} :
         last' = MapCall("unary_op", x, x, r)
    /\ UNCHANGED <<body, procs, world, seen>>

InitLists ==
    /\ body = [i \in 1..BodyLen |-> YieldStmt]
    /\ procs = [p \in Procs |-> NewProcess(0)]
    /\ \E l1 \in ListsOf(1) : \E l2 \in ListsOf(2) : world = [lists |-> <<l1, l2>>]
    /\ last = NoCall
    /\ seen = NothingSeen

NextLists ==
    \/ \E a \in EqOperands : \E b \in EqOperands : CheckEq(a, b)
    \/ \E a \in MapOperands : \E b \in MapOperands : BinaryOnLists(a, b)
    \/ \E x \in MapOperands : UnaryOnLists(x)

SpecLists == InitLists /\ [][NextLists]_vars

(***************************************************************************)
(* Entity properties (runtime.rs, Properties).  An f64 is a record         *)
(* [k, n, e]: k is "fin", "inf", "ninf" or "nan"; a finite value is n, or, *)
(* when n = 0, e times a magnitude far below half the spacing of the       *)
(* doubles next to 360 (1e-16, say), so that adding it to a non-zero n     *)
(* rounds back to n.  Angles are in degrees, positions in thousandths.     *)
(***************************************************************************)
F(n) == [k |-> "fin", n |-> n, e |-> 0]
Tiny(e) == [k |-> "fin", n |-> 0, e |-> e]
Inf == [k |-> "inf", n |-> 0, e |-> 0]
NegInf == [k |-> "ninf", n |-> 0, e |-> 0]
NaN == [k |-> "nan", n |-> 0, e |-> 0]
Sgn(i) == IF i > 0 THEN 1 ELSE IF i < 0 THEN -1 ELSE 0
\* -1, 0 or 1 by the sign of a non-NaN f64
FSign(x) ==
    CASE x.k = "inf" -> 1
      [] x.k = "ninf" -> -1
      [] OTHER -> IF x.n # 0 THEN Sgn(x.n) ELSE Sgn(x.e)
\* 0 for zero, 1 below the rounding threshold, 2 for ordinary values, 3 for infinities
FRank(x) ==
    CASE x.k \in {"inf", "ninf"} -> 3
      [] x.n # 0 -> 2
      [] x.e # 0 -> 1
      [] OTHER -> 0
FNeg(x) ==
    CASE x.k = "inf" -> NegInf
      [] x.k = "ninf" -> Inf
      [] x.k = "nan" -> NaN
      [] OTHER -> [k |-> "fin", n |-> -x.n, e |-> -x.e]
\* a + b of two f64, rounded to nearest
FAdd(a, b) ==
    CASE a.k = "nan" \/ b.k = "nan" -> NaN
      [] a.k = "fin" /\ b.k = "fin" ->
           IF a.n + b.n # 0 THEN F(a.n + b.n)
           ELSE IF a.n = 0 THEN Tiny(a.e + b.e) ELSE F(0)
      [] a.k = "fin" -> b
      [] b.k = "fin" -> a
      [] OTHER -> IF a.k = b.k THEN a ELSE NaN
FSub(a, b) == FAdd(a, FNeg(b))
\* a % m (the sign of the result is that of a; the operation is exact)
FRem(a, m) ==
    CASE a.k # "fin" -> NaN
      [] a.n >= 0 -> [a EXCEPT !.n = a.n % m]
      [] OTHER -> [a EXCEPT !.n = -((-a.n) % m)]
\* f64::rem_euclid: let r = self % rhs; if r < 0.0 { r + rhs.abs() } else { r }
rem_euclid(a, m) ==
    LET r == FRem(a, m) IN
    IF r.k = "fin" /\ FSign(r) < 0 THEN FAdd(r, F(m)) ELSE r
\* f64::max(0.0) and f64::clamp(0.0, 100.0); NaN stays NaN
FMax0(a) == IF a.k = "nan" THEN F(0) ELSE IF FSign(a) < 0 THEN F(0) ELSE a
FClamp(a) ==
    CASE a.k = "nan" -> a
      [] FSign(a) < 0 -> F(0)
      [] a.k = "inf" \/ a.n > 100 -> F(100)
      [] OTHER -> a
\* dx.atan2(dy).to_degrees(): exact on the axes, the diagonal of the quadrant
\* elsewhere, and a value below the rounding threshold where dx is negligible
\* against a positive dy
atan2_degrees(dx, dy) ==
    CASE dx.k = "nan" \/ dy.k = "nan" -> NaN
      [] FRank(dx) = 0 -> IF FSign(dy) >= 0 THEN F(0) ELSE F(180)
      [] FRank(dy) = 0 -> F(90 * FSign(dx))
      [] FRank(dx) < FRank(dy) -> IF FSign(dy) > 0 THEN Tiny(FSign(dx)) ELSE F(180 * FSign(dx))
      [] FRank(dx) > FRank(dy) -> F(90 * FSign(dx))
      [] OTHER -> F((IF FSign(dy) > 0 THEN 45 ELSE 135) * FSign(dx))
\* heading.to_radians().sin_cos() in thousandths; on the axes the f64 value of
\* pi makes the vanishing component a small non-zero number
sin_cos(h) ==
    CASE h.k # "fin" -> <<NaN, NaN>>
      [] h.n = 0 -> <<Tiny(Sgn(h.e)), F(1000)>>
      [] h.n = 45 -> <<F(707), F(707)>>
      [] h.n = 90 -> <<F(1000), Tiny(1)>>
      [] h.n = 135 -> <<F(707), F(-707)>>
      [] h.n = 180 -> <<Tiny(1), F(-1000)>>
      [] h.n = 225 -> <<F(-707), F(-707)>>
      [] h.n = 270 -> <<F(-1000), Tiny(-1)>>
      [] h.n = 315 -> <<F(-707), F(707)>>
      [] OTHER -> <<Tiny(-1), F(1000)>>
\* t * d for a sine or cosine t (in thousandths) and a distance d
FScale(t, d) ==
    CASE t.k = "nan" \/ d.k = "nan" -> NaN
      [] d.k # "fin" -> IF FSign(t) = 0 THEN NaN ELSE IF FSign(t) * FSign(d) > 0 THEN Inf ELSE NegInf
      [] FRank(t) = 0 \/ FRank(d) = 0 -> F(0)
      [] FRank(t) = 2 /\ FRank(d) = 2 -> F(Sgn(t.n) * Sgn(d.n) * ((Sgn(t.n) * t.n * Sgn(d.n) * d.n) \div 1000))
      [] OTHER -> Tiny(FSign(t) * FSign(d))
\* Number::new: NaN is the only f64 that is not a Number
NumberNew(x) == [ok |-> x.k # "nan", num |-> x]
NumVal(x) == [isnum |-> TRUE, num |-> x, bool |-> FALSE]
BoolVal(b) == [isnum |-> FALSE, num |-> F(0), bool |-> b]
\* Value::to_number and Value::to_bool on the values above
prop_to_number(v) == [ok |-> v.isnum, num |-> v.num]
prop_to_bool(v) == [ok |-> ~v.isnum, bool |-> v.bool]
DefaultEffects ==
    [color_h |-> F(0), color_s |-> F(0), color_v |-> F(0), color_t |-> F(0),
     fisheye |-> F(0), whirl |-> F(0), pixelate |-> F(0), mosaic |-> F(0), negative |-> F(0)]
DefaultProperties ==
    [pos |-> <<F(0), F(0)>>, heading |-> F(0), visible |-> TRUE, size |-> F(100),
     pen_down |-> FALSE, pen_size |-> F(1),
     pen_color_h |-> F(0), pen_color_s |-> F(0), pen_color_v |-> F(0), pen_color_t |-> F(0),
     tempo |-> F(60), volume |-> F(100), balance |-> F(0), effects |-> DefaultEffects]
\* `x as u32` (saturating, NaN to 0) followed by to_be_bytes: <<a, r, g, b>>;
\* every finite value of the scenarios is below u32::MAX
to_be_bytes(x) ==
    LET u == IF x.k = "fin" /\ x.n > 0 THEN x.n ELSE 0
    IN IF x.k = "inf" THEN <<255, 255, 255, 255>>
       ELSE <<u \div 16777216, (u \div 65536) % 256, (u \div 256) % 256, u % 256>>
\* Color::to_hsva, hue in whole degrees and the other three in percent
to_hsva(a, r, g, b) ==
    LET c_max == IF b >= r /\ b >= g THEN b ELSE IF g >= r THEN g ELSE r
        c_max_i == IF b >= r /\ b >= g THEN 2 ELSE IF g >= r THEN 1 ELSE 0
        c_min == IF r <= g /\ r <= b THEN r ELSE IF g <= b THEN g ELSE b
        delta == c_max - c_min
        h == CASE delta = 0 -> 0
               [] c_max_i = 0 -> ((60 * (g - b)) \div delta) % 360
               [] c_max_i = 1 -> (60 * (b - r)) \div delta + 120
               [] OTHER -> (60 * (r - g)) \div delta + 240
    IN <<h, IF c_max = 0 THEN 0 ELSE (100 * delta) \div c_max, (100 * c_max) \div 255, (100 * a) \div 255>>
PropertyNames ==
    {"XPos", "YPos", "Heading", "Visible", "Size", "PenDown", "PenSize", "PenColor",
     "PenColorH", "PenColorS", "PenColorV", "PenColorT", "Tempo", "Volume", "Balance",
     "ColorH", "ColorS", "ColorV", "ColorT", "Fisheye", "Whirl", "Pixelate", "Mosaic", "Negative"}
WrappedProps == {"Heading", "PenColorH", "ColorH"}
NonNegProps == {"Size", "PenSize"}
ClampedProps == {"PenColorS", "PenColorV", "PenColorT", "ColorS", "ColorV", "ColorT"}
BoolProps == {"Visible", "PenDown"}
\* the field a numeric property names
Field(props, prop) ==
    CASE prop = "XPos" -> props.pos[1]
      [] prop = "YPos" -> props.pos[2]
      [] prop = "Heading" -> props.heading
      [] prop = "Size" -> props.size
      [] prop = "PenSize" -> props.pen_size
      [] prop = "PenColorH" -> props.pen_color_h
      [] prop = "PenColorS" -> props.pen_color_s
      [] prop = "PenColorV" -> props.pen_color_v
      [] prop = "PenColorT" -> props.pen_color_t
      [] prop = "Tempo" -> props.tempo
      [] prop = "Volume" -> props.volume
      [] prop = "Balance" -> props.balance
      [] prop = "ColorH" -> props.effects.color_h
      [] prop = "ColorS" -> props.effects.color_s
      [] prop = "ColorV" -> props.effects.color_v
      [] prop = "ColorT" -> props.effects.color_t
      [] prop = "Fisheye" -> props.effects.fisheye
      [] prop = "Whirl" -> props.effects.whirl
      [] prop = "Pixelate" -> props.effects.pixelate
      [] prop = "Mosaic" -> props.effects.mosaic
      [] OTHER -> props.effects.negative
PutField(props, prop, x) ==
    CASE prop = "XPos" -> [props EXCEPT !.pos[1] = x]
      [] prop = "YPos" -> [props EXCEPT !.pos[2] = x]
      [] prop = "Heading" -> [props EXCEPT !.heading = x]
      [] prop = "Size" -> [props EXCEPT !.size = x]
      [] prop = "PenSize" -> [props EXCEPT !.pen_size = x]
      [] prop = "PenColorH" -> [props EXCEPT !.pen_color_h = x]
      [] prop = "PenColorS" -> [props EXCEPT !.pen_color_s = x]
      [] prop = "PenColorV" -> [props EXCEPT !.pen_color_v = x]
      [] prop = "PenColorT" -> [props EXCEPT !.pen_color_t = x]
      [] prop = "Tempo" -> [props EXCEPT !.tempo = x]
      [] prop = "Volume" -> [props EXCEPT !.volume = x]
      [] prop = "Balance" -> [props EXCEPT !.balance = x]
      [] prop = "ColorH" -> [props EXCEPT !.effects.color_h = x]
      [] prop = "ColorS" -> [props EXCEPT !.effects.color_s = x]
      [] prop = "ColorV" -> [props EXCEPT !.effects.color_v = x]
      [] prop = "ColorT" -> [props EXCEPT !.effects.color_t = x]
      [] prop = "Fisheye" -> [props EXCEPT !.effects.fisheye = x]
      [] prop = "Whirl" -> [props EXCEPT !.effects.whirl = x]
      [] prop = "Pixelate" -> [props EXCEPT !.effects.pixelate = x]
      [] prop = "Mosaic" -> [props EXCEPT !.effects.mosaic = x]
      [] OTHER -> [props EXCEPT !.effects.negative = x]
\* the range rule of a numeric property, applied to an f64 before Number::new
Ranged(prop, x) ==
    CASE prop \in WrappedProps -> rem_euclid(x, 360)
      [] prop \in NonNegProps -> FMax0(x)
      [] prop \in ClampedProps -> FClamp(x)
      [] OTHER -> x
\* a RequestKey or CommandKey: the results it has been completed with, in order
NewKey == <<>>
KeyOk(value) == [ok |-> TRUE, value |-> value]
KeyErr(msg) == [ok |-> FALSE, value |-> msg]
\* what a perform_* call leaves: the properties, the key and the returned status
Returns(w, status) == [props |-> w.props, key |-> w.key, status |-> status]
with_value_WritesAnyway(props, key, value, written) ==
    [props |-> written, key |-> Append(key, IF value.ok THEN KeyOk("()") ELSE KeyErr("ErrorCause"))]
\* with_value: on Ok f writes (written is props after f) and the key is
\* completed with Ok(()); on Err the key is completed with the formatted error
with_value(props, key, value, written) ==
    IF value.ok
    THEN [props |-> written, key |-> Append(key, KeyOk("()"))]
    ELSE [props |-> props, key |-> Append(key, KeyErr("ErrorCause"))]
\* the Json of a property; the pen colour is the packed ARGB of its HSVA
perform_get_property(props, key, prop) ==
    LET value == CASE prop = "Visible" -> props.visible
                   [] prop = "PenDown" -> props.pen_down
                   [] prop = "PenColor" ->
                        [argb_of |-> <<props.pen_color_h, props.pen_color_s,
                                       props.pen_color_v, props.pen_color_t>>]
                   [] OTHER -> Field(props, prop)
    IN Returns([props |-> props, key |-> Append(key, KeyOk(value))], "Handled")
perform_set_property(props, key, prop, value) ==
    LET n == prop_to_number(value)
        b == prop_to_bool(value)
        r == IF n.ok THEN NumberNew(Ranged(prop, n.num)) ELSE n
    IN Returns(
         CASE prop = "Visible" -> with_value(props, key, b, [props EXCEPT !.visible = b.bool])
           [] prop = "PenDown" -> with_value(props, key, b, [props EXCEPT !.pen_down = b.bool])
           [] prop = "PenColor" ->
                with_value(props, key, n,
                    LET argb == to_be_bytes(n.num)
                        hsva == to_hsva(argb[1], argb[2], argb[3], argb[4])
                    IN [props EXCEPT !.pen_color_h = F(hsva[1]), !.pen_color_s = F(hsva[2]),
                                     !.pen_color_v = F(hsva[3]), !.pen_color_t = F(100 - hsva[4])])
           [] OTHER -> with_value(props, key, r, PutField(props, prop, r.num)),
         "Handled")
perform_change_property(props, key, prop, delta) ==
    LET n == prop_to_number(delta)
        b == prop_to_bool(delta)
        r == IF n.ok THEN NumberNew(Ranged(prop, FAdd(Field(props, prop), n.num))) ELSE n
    IN Returns(
         CASE prop = "Visible" ->
                with_value(props, key, b, [props EXCEPT !.visible = (props.visible # b.bool)])
           [] prop = "PenDown" ->
                with_value(props, key, b, [props EXCEPT !.pen_down = (props.pen_down # b.bool)])
           [] prop = "PenColor" ->
                [props |-> props,
                 key |-> Append(key, KeyErr("attempt to apply relative change to a color"))]
           [] OTHER -> with_value(props, key, r, PutField(props, prop, r.num)),
         "Handled")
perform_clear_effects(props, key) ==
    Returns([props |-> [props EXCEPT !.effects = DefaultEffects],
             key |-> Append(key, KeyOk("()"))], "Handled")
perform_goto_xy(props, key, x, y) ==
    Returns([props |-> [props EXCEPT !.pos = <<x, y>>], key |-> Append(key, KeyOk("()"))], "Handled")
perform_point_towards_xy(props, key, x, y) ==
    LET dx == FSub(x, props.pos[1])
        dy == FSub(y, props.pos[2])
        heading == NumberNew(rem_euclid(atan2_degrees(dx, dy), 360))
    IN Returns(with_value(props, key, heading, PutField(props, "Heading", heading.num)), "Handled")
perform_forward(props, key, dist) ==
    LET sc == sin_cos(props.heading)
        x == NumberNew(FAdd(props.pos[1], FScale(sc[1], dist)))
        y == NumberNew(FAdd(props.pos[2], FScale(sc[2], dist)))
    IN Returns(with_value(props, key, [ok |-> x.ok /\ y.ok],
                          [props EXCEPT !.pos = <<x.num, y.num>>]), "Handled")
\* the arguments the host calls are made with
PropNumbers == {Tiny(-1), F(-90), F(450), Inf}
PropValues == {NumVal(x) : x \in PropNumbers} \cup {BoolVal(TRUE)}
Coordinates == {F(0), F(1000)}
Distances == {F(1000), F(-1000)}
\* the call last made, the key it was given and the status it returned
PropCall(kind, prop, key, status) == [kind |-> kind, prop |-> prop, key |-> key, status |-> status]
PropStep(kind, prop, ret) ==
    /\ world.commands < MaxCommands
    /\ world' = [props |-> ret.props, commands |-> world.commands + 1]
    /\ last' = PropCall(kind, prop, ret.key, ret.status)
    /\ UNCHANGED <<body, procs, seen>>
GetProperty(prop) == PropStep("get", prop, perform_get_property(world.props, NewKey, prop))
SetProperty(prop, value) == PropStep("set", prop, perform_set_property(world.props, NewKey, prop, value))
ChangeProperty(prop, delta) == PropStep("change", prop, perform_change_property(world.props, NewKey, prop, delta))
ClearEffects == PropStep("clear", "", perform_clear_effects(world.props, NewKey))
GotoXY(x, y) == PropStep("goto", "", perform_goto_xy(world.props, NewKey, x, y))
PointTowardsXY(x, y) == PropStep("point", "", perform_point_towards_xy(world.props, NewKey, x, y))
Forward(dist) == PropStep("forward", "", perform_forward(world.props, NewKey, dist))
InitProps ==
    /\ body = [i \in 1..BodyLen |-> YieldStmt]
    /\ procs = [p \in Procs |-> NewProcess(0)]
    /\ world = [props |-> DefaultProperties, commands |-> 0]
    /\ last = PropCall("none", "", NewKey, "")
    /\ seen = {}
NextProps ==
    \/ \E prop \in PropertyNames : GetProperty(prop)
    \/ \E prop \in PropertyNames, value \in PropValues : SetProperty(prop, value)
    \/ \E prop \in PropertyNames, delta \in PropValues : ChangeProperty(prop, delta)
    \/ ClearEffects
    \/ \E x \in Coordinates, y \in Coordinates : GotoXY(x, y)
    \/ \E x \in Coordinates, y \in Coordinates : PointTowardsXY(x, y)
    \/ \E dist \in Distances : Forward(dist)
SpecProps == InitProps /\ [][NextProps]_vars

(***************************************************************************)
(* Config::fallback (runtime.rs).  A handler closure is a sequence of the  *)
(* user-supplied handlers it calls in turn; a user-supplied handler has a  *)
(* name and, for every request or command, an outcome: Handled, or         *)
(* UseDefault with the request or command it hands back.  Requests and     *)
(* commands are numbered; the two slots of a Config are composed alike.    *)
(***************************************************************************)
Handled == [status |-> "Handled", key |-> 0, request |-> 0]
UseDefault(key, request) == [status |-> "UseDefault", key |-> key, request |-> request]
ConfigRequests == {1, 2}
ConfigKeys == {1, 2}
\* what a user-supplied handler may do with a request: 0 handles it, r hands r back
Outcomes == [ConfigRequests -> {0} \cup ConfigRequests]
UserHandler(name, out) == <<[name |-> name, out |-> out]>>
Config(request, command) == [request |-> request, command |-> command]
\* one call of a handler closure: the status it returns and the user-supplied
\* handlers invoked on the way, each with the key and request it was given
RECURSIVE call_handler(_, _, _)
call_handler(h, key, request) ==
    LET first == h[1]
        given == <<[name |-> first.name, key |-> key, request |-> request]>>
        status == IF first.out[request] = 0 THEN Handled ELSE UseDefault(key, first.out[request])
    IN IF status.status = "Handled" \/ Len(h) = 1
       THEN [status |-> status, invoked |-> given]
       ELSE LET rest == call_handler(Tail(h), status.key, status.request)
            IN [status |-> rest.status, invoked |-> given \o rest.invoked]
fallback_slot_Swapped(a, b) ==
    CASE a.tag = "Some" /\ b.tag = "Some" -> Some(b.val \o a.val)
      [] a.tag = "Some" -> a
      [] OTHER -> b
\* one slot of Config::fallback
fallback_slot(a, b) ==
    CASE a.tag = "Some" /\ b.tag = "Some" -> Some(a.val \o b.val)
      [] a.tag = "Some" -> a
      [] b.tag = "Some" -> b
      [] OTHER -> None
fallback(self, other) ==
    Config(fallback_slot(self.request, other.request), fallback_slot(self.command, other.command))
HandlerOptions(name) == {None} \cup {Some(UserHandler(name, out)) : out \in Outcomes}
\* the host dispatches a request or a command to the composed Config
Dispatch(slot, key, request) ==
    /\ last.kind = "none"
    /\ \E h \in {IF slot = "request" THEN world.composed.request ELSE world.composed.command} :
         /\ h.tag = "Some"
         /\ last' = [kind |-> slot, key |-> key, request |-> request,
                     call |-> call_handler(h.val, key, request)]
    /\ UNCHANGED <<body, procs, world, seen>>
DispatchRequest(key, request) == Dispatch("request", key, request)
DispatchCommand(key, command) == Dispatch("command", key, command)
InitFallback ==
    /\ body = [i \in 1..BodyLen |-> YieldStmt]
    /\ procs = [p \in Procs |-> NewProcess(0)]
    /\ \E ar \in HandlerOptions("a"), ac \in HandlerOptions("a"),
          br \in HandlerOptions("b"), bc \in HandlerOptions("b") :
         world = [a |-> Config(ar, ac), b |-> Config(br, bc),
                  composed |-> fallback(Config(ar, ac), Config(br, bc))]
    /\ last = [kind |-> "none", key |-> 0, request |-> 0,
               call |-> [status |-> Handled, invoked |-> <<>>]]
    /\ seen = {}
NextFallback ==
    \/ \E key \in ConfigKeys, request \in ConfigRequests : DispatchRequest(key, request)
    \/ \E key \in ConfigKeys, command \in ConfigRequests : DispatchCommand(key, command)
SpecFallback == InitFallback /\ [][NextFallback]_vars

(***************************************************************************)
(* LosslessJoin and lossless_split (util.rs).  A string is a sequence of   *)
(* characters; character 0 is NUL.                                         *)
(***************************************************************************)
NUL == 0
JoinChars == {NUL, 1, 2}
RECURSIVE StringsUpTo(_)
StringsUpTo(n) ==
    IF n = 0 THEN {<<>>}
    ELSE LET shorter == StringsUpTo(n - 1)
         IN shorter \cup {Append(s, c) : s \in shorter, c \in JoinChars}
JoinStrings == StringsUpTo(MaxStrLen)
HasNul(val) == \E i \in 1..Len(val) : val[i] = NUL
\* str::split(sep): the pieces between the separators, one more than there
\* are separators
RECURSIVE str_split(_, _, _)
str_split(src, sep, piece) ==
    IF src = <<>> THEN <<piece>>
    ELSE IF Head(src) = sep THEN <<piece>> \o str_split(Tail(src), sep, <<>>)
    ELSE str_split(Tail(src), sep, Append(piece, Head(src)))
\* Iterator::skip(n)
skip(items, n) == SubSeq(items, n + 1, Len(items))
\* LosslessJoin::push: ok is false when the assertion fails
push(content, val) ==
    IF HasNul(val) THEN [ok |-> FALSE, content |-> content]
    ELSE [ok |-> TRUE, content |-> Append(content, NUL) \o val]
lossless_split_KeepsFirst(src) ==
    IF (IF src = <<>> THEN NUL ELSE Head(src)) # NUL THEN [ok |-> FALSE, items |-> <<>>]
    ELSE [ok |-> TRUE, items |-> str_split(src, NUL, <<>>)]
\* lossless_split, collected: ok is false when the assertion fails
lossless_split(src) ==
    IF (IF src = <<>> THEN NUL ELSE Head(src)) # NUL THEN [ok |-> FALSE, items |-> <<>>]
    ELSE [ok |-> TRUE, items |-> skip(str_split(src, NUL, <<>>), 1)]
\* world.content is the LosslessJoin (or, once finished, the String it
\* returned), world.pushed the values pushed so far, world.back the result
\* of lossless_split
JoinPush(val) ==
    /\ world.stage = "join"
    /\ Len(world.pushed) < MaxStrings
    /\ \E r \in {push(world.content, val)} :
         world' = IF r.ok THEN [world EXCEPT !.content = r.content, !.pushed = Append(@, val)]
                  ELSE [world EXCEPT !.stage = "panic"]
    /\ last' = [kind |-> "push"]
    /\ UNCHANGED <<body, procs, seen>>
JoinFinish ==
    /\ world.stage = "join"
    /\ world' = [world EXCEPT !.stage = "string"]
    /\ last' = [kind |-> "finish"]
    /\ UNCHANGED <<body, procs, seen>>
LosslessSplit ==
    /\ world.stage = "string"
    /\ \E r \in {lossless_split(world.content)} :
         world' = IF r.ok THEN [world EXCEPT !.stage = "split", !.back = r.items]
                  ELSE [world EXCEPT !.stage = "panic"]
    /\ last' = [kind |-> "split"]
    /\ UNCHANGED <<body, procs, seen>>
InitJoin ==
    /\ body = [i \in 1..BodyLen |-> YieldStmt]
    /\ procs = [p \in Procs |-> NewProcess(0)]
    /\ world = [stage |-> "join", content |-> <<>>, pushed |-> <<>>, back |-> <<>>]
    /\ last = [kind |-> "new"]
    /\ seen = {}
NextJoin ==
    \/ \E val \in JoinStrings : JoinPush(val)
    \/ JoinFinish
    \/ LosslessSplit
SpecJoin == InitJoin /\ [][NextJoin]_vars

(***************************************************************************)
(* SpecBcastFair: SpecBcast with a host that keeps stepping every process  *)
(* that can be stepped (so that every receiver runs to its end) and that   *)
(* drops the Barrier handles it holds.                                     *)
(***************************************************************************)
SpecBcastFair ==
    /\ InitBcast
    /\ [][NextBcast]_vars
    /\ \A p \in Procs : WF_vars(Step(p))
    /\ \A b \in 1..MaxBarriers : WF_vars(Release(b))

(***************************************************************************)
(* SpecHost: one process on scripts of requests (ask, RPC, syscall) and    *)
(* commands (print), against a system that answers each of them at once    *)
(* or hands out a key and completes it later.                              *)
(***************************************************************************)
HostStatements == { AskStmt, SayStmt, RpcStmt, SyscallStmt, TryBlock }
HostBodies == [1..BodyLen -> HostStatements]

InitHost ==
    /\ body \in HostBodies
    /\ procs = [p \in Procs |-> NewProcess(IF p = 1 THEN FEntry ELSE 0)]
    /\ \E rpc \in ErrorSchemes, syscall \in ErrorSchemes :
          world = [InitWorld(TRUE) EXCEPT !.settings.rpc_error_scheme = rpc,
                                          !.settings.syscall_error_scheme = syscall]
    /\ last = NoCall
    /\ seen = NothingSeen

NextHost ==
    \/ Initialize(1)
    \/ Step(1)
    \/ Complete(1)

SpecHost == InitHost /\ [][NextHost]_vars

(***************************************************************************)
(* SpecDefer: one process on scripts that park it on a key (ask, print,    *)
(* RPC, message with reply), against a system that hands out a key for     *)
(* each of them and completes it once, later.  SpecDeferFair adds what the *)
(* host's loop gives: the process keeps being stepped, a pending key is    *)
(* completed.                                                              *)
(***************************************************************************)
DeferStatements == { AskStmt, SayStmt, RpcStmt, MessageStmt, TryBlock }
DeferBodies == [1..BodyLen -> DeferStatements]

\* what poll_reply may hand over: a reply, a reply of null, a timeout
ReplyResults == { Some([json |-> "String", str |-> "yes"]), Some(JsonNull), None }

InitDefer ==
    /\ body \in DeferBodies
    /\ procs = [p \in Procs |-> NewProcess(IF p = 1 THEN FEntry ELSE 0)]
    /\ \E rpc \in ErrorSchemes :
          world = [InitWorld(TRUE) EXCEPT !.settings.rpc_error_scheme = rpc]
    /\ last = NoCall
    /\ seen = NothingSeen

\* system: the key the process is parked on completes
CompleteKey(p) ==
    /\ ~Aborted
    /\ procs[p].defer # None
    /\ procs[p].defer.val.kind \in {"Request", "Command", "MessageReply"}
    /\ world.requests[p] = Pending
    /\ \E r \in IF procs[p].defer.val.kind = "MessageReply" THEN ReplyResults ELSE Results :
          world' = [world EXCEPT !.requests[p] = complete(@, r).cell]
    /\ last' = NoCall
    /\ UNCHANGED <<body, procs, seen>>

NextDefer ==
    \/ Initialize(1)
    \/ Step(1)
    \/ CompleteKey(1)

SpecDefer == InitDefer /\ [][NextDefer]_vars
SpecDeferFair == SpecDefer /\ WF_vars(Step(1)) /\ WF_vars(CompleteKey(1))

(***************************************************************************)
(* SpecVars: one process running F on scripts that assign variables and    *)
(* make and call closures over x, started with or without x among its      *)
(* locals, on an entity and a project that bind x or do not.  The body of  *)
(* every closure is the fourth script.                                     *)
(***************************************************************************)
SetX == << PushInt(5), Assign("x") >>
SetY == << PushInt(6), Assign("y") >>
MakeF(g) == << MetaPush("x"), MakeClosure(g, 0, 1), Assign("f") >>
MakeH(g) == << MetaPush("x"), MakeClosure(g, 0, 1), Assign("h") >>
CallF == << PushVariable("f"), CallClosure(0), Assign("r") >>
CallH == << PushVariable("h"), CallClosure(0), Assign("r") >>
\* a closure with the parameter x over the variable x, called with 7
ShadowCall(g) ==
    << MetaPush("x"), MetaPush("x"), MakeClosure(g, 1, 1), Assign("f"),
       PushInt(7), PushVariable("f"), CallClosure(1), Assign("r") >>
VarsStatements(g) ==
    { SetX, SetY, MakeF(g) \o CallF, MakeF(g) \o SetX, CallF \o CallF,
      MakeF(g) \o MakeH(g), CallF \o CallH, CallH \o SetX, ShadowCall(g) }

\* the tables of the project and of the entity
VarsGlobals == { EmptyTable, redefine_or_define(EmptyTable, "x", Unique(NumberV(100))) }
VarsFields == { EmptyTable, redefine_or_define(EmptyTable, "x", Unique(NumberV(10))) }

InitVars ==
    /\ \E g \in 0..(FEntry + BodyLen * Len(ShadowCall(0)) + Len(FTail) + Len(ReplyScript(0))) :
          /\ body \in [1..BodyLen -> VarsStatements(g)]
          /\ g = BumpEntry(body)
    /\ procs = [p \in Procs |-> NewProcess(IF p = 1 THEN FEntry ELSE 0)]
    /\ \E globals \in VarsGlobals, fields \in VarsFields :
          world = [InitWorld(TRUE) EXCEPT !.globals = globals, !.fields = fields]
    /\ last = NoCall
    /\ seen = NothingSeen

\* the script is run once on a project: the counters in x and the arena
\* grow with every run
NextVars ==
    \/ last = NoCall /\ Initialize(1)
    \/ Step(1)

SpecVars == InitVars /\ [][NextVars]_vars

(***************************************************************************)
(* SpecMeta: one process on scripts whose calls, closures and RPCs take    *)
(* names from the meta stack, each directly preceded by the MetaPush       *)
(* instructions it consumes, with try blocks around them; max_call_depth   *)
(* is MaxCallDepth, so the calls of F in F reach the limit.                *)
(***************************************************************************)
\* try { F(0) }, the try left open
GuardedCall ==
    << PushHandler(HandlerPos, "e"), MetaPush("x"), PushInt(0), Call(FEntry, 1), PopValue >>
CaptureStmt == << MetaPush("x"), MakeClosure(FEntry, 0, 1), PopValue >>
MetaStatements == { GuardedCall, RpcStmt, CaptureStmt, RunF, TryBlock }
MetaBodies == [1..BodyLen -> MetaStatements]

InitMeta ==
    /\ body \in MetaBodies
    /\ \E start_pos \in EntryPoints :
          procs = [p \in Procs |-> NewProcess(IF p = 1 THEN start_pos ELSE 0)]
    /\ \E debug \in BOOLEAN : world = InitWorld(debug)
    /\ last = NoCall
    /\ seen = NothingSeen

\* the arena is not collected in the model: the process is started anew
\* only while the arena holds fewer than MaxAliases cells
NextMeta ==
    \/ Len(world.cells) < MaxAliases /\ Initialize(1)
    \/ Step(1)
    \/ Complete(1)

SpecMeta == InitMeta /\ [][NextMeta]_vars

(***************************************************************************)
(* SpecServer: the execution server (cli.rs, run_server).  The HTTP thread *)
(* serves set_project, send_input and toggle_paused at any time; the main  *)
(* thread loops over: drain the channel, test the running flag, run a      *)
(* batch of project steps.  A project text either fails to parse, parses   *)
(* and fails to compile, or loads; what Project::step returns is up to the *)
(* project.                                                                *)
(***************************************************************************)
STEPS_PER_IO_ITER == 64

EMPTY_PROJECT == [name |-> "empty", parses |-> TRUE, compiles |-> TRUE]
Contents ==
    { [name |-> "a", parses |-> TRUE, compiles |-> TRUE],
      [name |-> "b", parses |-> TRUE, compiles |-> TRUE],
      [name |-> "noparse", parses |-> FALSE, compiles |-> FALSE],
      [name |-> "nocompile", parses |-> TRUE, compiles |-> FALSE] }
Inputs == {"Start", "Stop"}
SetProjectCommand(content) == [cmd |-> "SetProject", content |-> content]
InputCommand(input) == [cmd |-> "Input", input |-> input]
ProjectSteps == {"Normal", "Yield", "Error", "Pause"}

\* open_project: the role of the parsed project
open_project(content) ==
    IF content.parses THEN [ok |-> TRUE, role |-> content] ELSE [ok |-> FALSE]

\* get_env: the environment of the compiled role; inputs counts the inputs
\* its project was given
get_env(role) ==
    IF role.compiles THEN [ok |-> TRUE, env |-> [of |-> role.name, inputs |-> 0]]
    ELSE [ok |-> FALSE]

\* the SetProject arm that stores the text as soon as it parses
LoadProject_StoresParsed(W, content) ==
    LET opened == open_project(content) IN
    IF ~opened.ok THEN W
    ELSE LET x == get_env(opened.role) IN
         IF x.ok THEN [W EXCEPT !.env = x.env, !.current_proj = content]
         ELSE [W EXCEPT !.current_proj = content]

\* the arm ServerCommand::SetProject of the main loop
LoadProject(W, content) ==
    LET opened == open_project(content) IN
    IF ~opened.ok THEN W
    ELSE LET x == get_env(opened.role) IN
         IF x.ok THEN [W EXCEPT !.env = x.env, !.current_proj = content]
         ELSE W

\* the arm ProjectStep::Pause that goes on with the batch
AfterStep_KeepsBatch(W, res) ==
    IF res = "Pause" THEN [W EXCEPT !.running = FALSE, !.left = @ - 1,
                                    !.pc = IF W.left = 1 THEN "input" ELSE "batch"]
    ELSE [W EXCEPT !.left = @ - 1, !.pc = IF W.left = 1 THEN "input" ELSE "batch"]

\* the body of the batch loop after proj.step returned res
AfterStep(W, res) ==
    IF res = "Pause" THEN [W EXCEPT !.running = FALSE, !.left = 0, !.pc = "input"]
    ELSE [W EXCEPT !.left = @ - 1, !.pc = IF W.left = 1 THEN "input" ELSE "batch"]

InitServer ==
    /\ body = [i \in 1..BodyLen |-> YieldStmt]
    /\ procs = [p \in Procs |-> NewProcess(0)]
    /\ world = [running |-> TRUE, current_proj |-> EMPTY_PROJECT,
                env |-> get_env(open_project(EMPTY_PROJECT).role).env,
                queue |-> <<>>, requests |-> 0, pc |-> "input", left |-> 0]
    /\ last = NoCall
    /\ seen = [paused |-> FALSE]

\* HTTP: POST /project
set_project(content) ==
    /\ world.requests < MaxRequests
    /\ world' = [world EXCEPT !.queue = Append(@, SetProjectCommand(content)),
                              !.requests = @ + 1]
    /\ last' = [kind |-> "set_project"]
    /\ UNCHANGED <<body, procs, seen>>

\* HTTP: POST /input
send_input(input) ==
    /\ world.requests < MaxRequests
    /\ world' = [world EXCEPT !.queue = Append(@, InputCommand(input)),
                              !.requests = @ + 1]
    /\ last' = [kind |-> "send_input"]
    /\ UNCHANGED <<body, procs, seen>>

\* HTTP: POST /toggle-paused
toggle_paused ==
    /\ world.requests < MaxRequests
    /\ world' = [world EXCEPT !.running = ~@, !.requests = @ + 1]
    /\ last' = [kind |-> "toggle_paused"]
    /\ seen' = [seen EXCEPT !.paused = @ /\ world.running]
    /\ UNCHANGED <<body, procs>>

\* main loop: try_recv returns a command, which is applied
Receive ==
    /\ world.pc = "input"
    /\ world.queue # <<>>
    /\ LET command == Head(world.queue)
           W == [world EXCEPT !.queue = Tail(@)]
       IN IF command.cmd = "SetProject"
          THEN /\ world' = LoadProject(W, command.content)
               /\ seen' = seen
          ELSE /\ world' = [W EXCEPT !.running = (command.input = "Start") \/ @,
                                     !.env.inputs = @ + 1]
               /\ seen' = [seen EXCEPT !.paused = @ /\ command.input # "Start"]
    /\ last' = [kind |-> "receive", command |-> Head(world.queue)]
    /\ UNCHANGED <<body, procs>>

\* main loop: try_recv returns Empty; the running flag is loaded: a batch
\* starts, or the thread sleeps and goes back to the channel
CheckRunning ==
    /\ world.pc = "input"
    /\ world.queue = <<>>
    /\ world' = IF world.running
                THEN [world EXCEPT !.pc = "batch", !.left = STEPS_PER_IO_ITER]
                ELSE world
    /\ last' = [kind |-> "check", running |-> world.running]
    /\ UNCHANGED <<body, procs, seen>>

\* main loop: one proj.step(mc) of the batch
ProjectStep ==
    /\ world.pc = "batch"
    /\ \E res \in ProjectSteps :
          /\ world' = AfterStep(world, res)
          /\ last' = [kind |-> "project_step", res |-> res]
          /\ seen' = [seen EXCEPT !.paused = @ \/ res = "Pause"]
    /\ UNCHANGED <<body, procs>>

NextServer ==
    \/ \E content \in Contents : set_project(content)
    \/ \E input \in Inputs : send_input(input)
    \/ toggle_paused
    \/ Receive
    \/ CheckRunning
    \/ ProjectStep

SpecServer == InitServer /\ [][NextServer]_vars

(***************************************************************************)
(* List indexing (process.rs).  An f64 index is kept in halves, so that    *)
(* 0.5, 1.5, ... are there beside the whole numbers, or is infinite; the   *)
(* list is one VecDeque of strings on which the script runs ListGet,       *)
(* ListAssign, ListRemove and ListInsert with a scalar index.              *)
(***************************************************************************)
Half(h) == [k |-> "fin", halves |-> h]
InfIndex == [k |-> "inf", halves |-> 0]
IndexV(raw) == [type |-> "Number", raw |-> raw]
\* Value::to_number on an index
index_to_number(v) ==
    IF v.type = "Number" THEN [ok |-> TRUE, val |-> v.raw]
    ELSE [ok |-> FALSE, err |-> Conversion(v.type, "Number")]
\* raw_index < 1.0 and raw_index > len as f64
BelowOne(raw) == raw.k = "fin" /\ raw.halves < 2
Above(raw, len) == raw.k = "inf" \/ raw.halves > 2 * len
\* raw_index as u64 of a finite index: truncation towards zero, saturating at 0
as_u64(raw) == IF raw.halves < 0 THEN 0 ELSE raw.halves \div 2
prep_index_IntegerFirst(index, len) ==
    LET n == index_to_number(index)
        raw == n.val
    IN IF ~n.ok THEN n
       ELSE IF raw.k = "inf" \/ 2 * as_u64(raw) # raw.halves
       THEN [ok |-> FALSE, err |-> [cause |-> "IndexNotInteger", index |-> raw]]
       ELSE IF BelowOne(raw) \/ Above(raw, len)
       THEN [ok |-> FALSE, err |-> [cause |-> "IndexOutOfBounds", index |-> raw, len |-> len]]
       ELSE [ok |-> TRUE, val |-> as_u64(raw) - 1]
\* ops::prep_index: the 0-based position of a 1-based index into len elements
prep_index(index, len) ==
    LET n == index_to_number(index)
        raw == n.val
    IN IF ~n.ok THEN n
       ELSE IF BelowOne(raw) \/ Above(raw, len)
       THEN [ok |-> FALSE, err |-> [cause |-> "IndexOutOfBounds", index |-> raw, len |-> len]]
       ELSE IF raw.k = "inf" \/ 2 * as_u64(raw) # raw.halves
       THEN [ok |-> FALSE, err |-> [cause |-> "IndexNotInteger", index |-> raw]]
       ELSE [ok |-> TRUE, val |-> as_u64(raw) - 1]
\* VecDeque::insert, VecDeque::remove and IndexMut at a 0-based position
VecInsert(list, i, val) == SubSeq(list, 1, i) \o << val >> \o SubSeq(list, i + 1, Len(list))
VecRemove(list, i) == SubSeq(list, 1, i) \o SubSeq(list, i + 2, Len(list))
VecAssign(list, i, val) == [list EXCEPT ![i + 1] = val]
\* what an instruction leaves: Ok with the value it pushed, or the error it
\* returned, and the list
ListOk(list, pushed) == [ok |-> TRUE, list |-> list, pushed |-> pushed]
ListErr(list, err) == [ok |-> FALSE, list |-> list, err |-> err]
InsListInsert(list, index, val) ==
    LET i == prep_index(index, Len(list) + 1)
    IN IF i.ok THEN ListOk(VecInsert(list, i.val, val), <<>>) ELSE ListErr(list, i.err)
\* ops::index_list with a scalar index
InsListGet(list, index) ==
    LET i == prep_index(index, Len(list))
    IN IF i.ok THEN ListOk(list, << list[i.val + 1] >>) ELSE ListErr(list, i.err)
InsListAssign(list, index, value) ==
    LET i == prep_index(index, Len(list))
    IN IF i.ok THEN ListOk(VecAssign(list, i.val, value), <<>>) ELSE ListErr(list, i.err)
InsListRemove(list, index) ==
    LET i == prep_index(index, Len(list))
    IN IF i.ok THEN ListOk(VecRemove(list, i.val), <<>>) ELSE ListErr(list, i.err)

\* the indices and values of the scripts
Indices ==
    {IndexV(Half(h)) : h \in (-2)..(2 * MaxListLen + 4)} \cup {IndexV(InfIndex), BoolV(TRUE)}
ListValues == {StringV("a"), StringV("b")}
IndexCall(op, index, before, r) ==
    [kind |-> op, index |-> index, len |-> Len(before), ok |-> r.ok,
     err |-> IF r.ok THEN [cause |-> "none"] ELSE r.err,
     pushed |-> IF r.ok THEN r.pushed ELSE <<>>]
IndexStep(op, index, r) ==
    /\ world' = [list |-> r.list]
    /\ last' = IndexCall(op, index, world.list, r)
    /\ UNCHANGED <<body, procs, seen>>
ListInsert(index, val) ==
    /\ Len(world.list) < MaxListLen
    /\ IndexStep("ListInsert", index, InsListInsert(world.list, index, val))
ListGet(index) == IndexStep("ListGet", index, InsListGet(world.list, index))
ListAssign(index, value) == IndexStep("ListAssign", index, InsListAssign(world.list, index, value))
ListRemove(index) == IndexStep("ListRemove", index, InsListRemove(world.list, index))
InitIndex ==
    /\ body = [i \in 1..BodyLen |-> YieldStmt]
    /\ procs = [p \in Procs |-> NewProcess(0)]
    /\ world = [list |-> <<>>]
    /\ last = NoCall
    /\ seen = NothingSeen
NextIndex ==
    \/ \E index \in Indices, val \in ListValues : ListInsert(index, val)
    \/ \E index \in Indices : ListGet(index)
    \/ \E index \in Indices, value \in ListValues : ListAssign(index, value)
    \/ \E index \in Indices : ListRemove(index)
SpecIndex == InitIndex /\ [][NextIndex]_vars

(***************************************************************************)
(* Properties.  `last` tells which call of the host led to a state, so an  *)
(* action formula relates the process before a step (procs[p]) to the      *)
(* process after it (procs'[p]) and to what the step returned (last').     *)
(***************************************************************************)
\* the call of the host that leads to the next state is a step of p
Stepped(p) == last'.kind = "step" /\ last'.p = p

\* the instruction that step fetched
Fetched(call) == Code(body)[call.at + 1]

\* C1: when an instruction of a running process raises an error while the
\* handler stack is non-empty, the same step returns Normal and the process
\* stays running; the call stack and the value stack then have the lengths
\* the handler on top of the handler stack recorded, warp_counter is the one
\* it recorded, pos is its position, and its variable is bound in the new top
\* frame to the message of the error: the literal message of a Custom error,
\* the Debug text of any other.
C1_CaughtErrorUnwinds ==
    [][\A p \in Procs :
          (Stepped(p) /\ last'.err # NoError /\ procs[p].running
                      /\ procs[p].handler_stack # <<>>)
          => LET h == Last(procs[p].handler_stack)
                 Q == procs'[p]
             IN /\ last'.res = "Normal"
                /\ Q.running
                /\ Len(Q.call_stack) = h.call_stack_size
                /\ Len(Q.value_stack) = h.value_stack_size
                /\ Q.warp_counter = h.warp_counter
                /\ Q.pos = h.pos
                /\ h.var \in DOMAIN TopFrame(Q).locals
                /\ TopFrame(Q).locals[h.var] =
                      Unique(StringV(IF last'.err.cause = "Custom" THEN last'.err.msg
                                     ELSE DebugFmt(last'.err)))
      ]_vars

\* a call-depth error raised in F was caught by the handler of Main: a frame
\* and a value were dropped and e is bound to the Debug text
C1_Witness ==
    /\ last.kind = "step" /\ last.recovered
    /\ last.err.cause = "CallDepthLimit"
    /\ Len(procs[last.p].call_stack) = 1
    /\ procs[last.p].value_stack = <<>>

\* C2, as stated: the handler stack is truncated on a catch to the size it
\* had when the catching PushHandler executed.  The handler that catches is
\* on top of the handler stack, so that size is one less than the size at
\* the time of the error.
C2_HandlerStackTruncated ==
    [][\A p \in Procs :
          (Stepped(p) /\ last'.recovered)
          => Len(procs'[p].handler_stack) = Len(procs[p].handler_stack) - 1
      ]_vars

\* C2, amended: PushHandler records the position, the variable, the warp
\* counter, the call-stack size and the value-stack size that are current
\* when it executes, and no handler-stack size; when an error is caught the
\* call stack and the value stack are cut back to the recorded sizes and the
\* handler stack is left as it is, the catching handler still on top.
C2_CatchKeepsHandlerStack ==
    [][\A p \in Procs :
          /\ (Stepped(p) /\ last'.op = "PushHandler" /\ last'.res = "Normal")
             => procs'[p].handler_stack =
                   Append(procs[p].handler_stack,
                          [ pos |-> Fetched(last').pos, var |-> Fetched(last').var,
                            warp_counter |-> procs[p].warp_counter,
                            call_stack_size |-> Len(procs[p].call_stack),
                            value_stack_size |-> Len(procs[p].value_stack) ])
          /\ (Stepped(p) /\ last'.recovered)
             => /\ procs'[p].handler_stack = procs[p].handler_stack
                /\ Len(procs'[p].call_stack) = Last(procs[p].handler_stack).call_stack_size
                /\ Len(procs'[p].value_stack) = Last(procs[p].handler_stack).value_stack_size
      ]_vars

\* an error was caught under two nested handlers, and both are still there
C2_Witness ==
    /\ last.kind = "step" /\ last.recovered
    /\ Len(procs[last.p].handler_stack) = 2

\* C3: an error raised while the handler stack is empty makes step return
\* Err and leaves the process idle; a step, whatever it returns, changes no
\* field of any other process.
C3_UncaughtErrorStaysLocal ==
    [][\A p \in Procs :
          Stepped(p)
          => /\ (last'.err # NoError /\ procs[p].handler_stack = <<>>)
                => (last'.res = "Err" /\ ~procs'[p].running)
             /\ \A q \in Procs \ {p} : procs'[q] = procs[q]
      ]_vars

\* a step returned Err while another process was running, parked on a sleep
C3_Witness ==
    /\ last.kind = "step" /\ last.res = "Err"
    /\ \E q \in Procs \ {last.p} : procs[q].running /\ procs[q].defer # None

\* C4: after a step that returns Terminate or Err the process is idle and
\* holds neither a barrier nor a reply key; after a step of a running
\* process that returns Normal, Yield or Broadcast the process is running.
C4_IdleAfterTerminateOrErr ==
    [][\A p \in Procs :
          Stepped(p)
          => /\ last'.res \in {"Terminate", "Err"}
                => /\ ~procs'[p].running
                   /\ procs'[p].barrier = None
                   /\ procs'[p].reply_key = None
             /\ (procs[p].running /\ last'.res \in {"Normal", "Yield", "Broadcast"})
                => procs'[p].running
      ]_vars

\* Main returned 1 + F(0): the step returned Terminate and the process is
\* idle, its barrier handle given up
C4_Witness ==
    /\ last.kind = "step" /\ last.res = "Terminate"
    /\ last.result = Some(NumberV(1))
    /\ ~procs[last.p].running
    /\ \A b \in DOMAIN world.strong : world.strong[b] = 0

\* C5, as stated: a step of a process that is not running returns
\* ProcessStep::Idle and changes nothing.
C5_IdleStepDoesNothing ==
    [][\A p \in Procs :
          (Stepped(p) /\ ~procs[p].running)
          => (last'.res = "Idle" /\ procs'[p] = procs[p])
      ]_vars

\* C6, as stated: a step that returns is a poll of the defer slot, or the
\* fetch and execution of an instruction, or a recovery, and never two of
\* them.
C6_ExactlyOneOfThree ==
    (last.kind = "step" /\ last.res # "Panic")
    => \/ (last.polled /\ ~last.executed /\ ~last.recovered)
       \/ (~last.polled /\ last.executed /\ ~last.recovered)
       \/ (~last.polled /\ ~last.executed /\ last.recovered)

\* C6, amended: a step polls the defer slot exactly when one is pending; a
\* poll that finds the operation pending ends the step with Yield, a poll
\* that completes is followed in the same step by the fetch and execution of
\* the instruction at aft_pos; without a defer the step fetches and executes
\* one instruction; a recovery never is a step of its own: it happens in the
\* step whose instruction or poll raised the error.
C6_PollThenExecuteThenRecover ==
    [][\A p \in Procs :
          (Stepped(p) /\ last'.res # "Panic")
          => /\ last'.polled <=> (procs[p].defer # None)
             /\ ~last'.polled => last'.executed
             /\ (last'.polled /\ ~last'.executed)
                => \/ (last'.res = "Yield" /\ procs'[p] = procs[p])
                   \/ last'.err.cause = "Promoted"
             /\ last'.recovered
                => (last'.err # NoError /\ (last'.executed \/ last'.polled))
             /\ (last'.err # NoError /\ procs[p].handler_stack # <<>>)
                => last'.recovered
      ]_vars

\* one step polled a sleep that was over, executed the throw after it and
\* moved into the handler
C6_Witness ==
    /\ last.kind = "step"
    /\ last.polled /\ last.executed /\ last.recovered

\* C7: after initialize, in whatever state it was called, the process is
\* running at start_pos with warp_counter 0, one frame (sentinel
\* called_from and return_to, the given locals), empty value, handler and
\* meta stacks, no defer, no last syscall error, rpc error or answer, and
\* the given barrier and reply key.
C7_InitializeResets ==
    last.kind = "initialize"
    => procs[last.p] =
        [ start_pos |-> procs[last.p].start_pos,
          running |-> TRUE,
          barrier |-> last.barrier,
          reply_key |-> last.reply_key,
          pos |-> procs[last.p].start_pos,
          warp_counter |-> 0,
          call_stack |-> << [ called_from |-> usize_MAX, return_to |-> usize_MAX,
                              locals |-> last.locals, warp_counter |-> 0,
                              value_stack_size |-> 0, handler_stack_size |-> 0 ] >>,
          value_stack |-> <<>>,
          handler_stack |-> <<>>,
          meta_stack |-> <<>>,
          defer |-> None,
          last_syscall_error |-> None,
          last_rpc_error |-> None,
          last_answer |-> None ]

\* initialize was called on a running process inside a call, inside a warp
\* region, parked on a defer
C7_Witness ==
    /\ last.kind = "initialize"
    /\ last.was.running /\ last.was.in_call /\ last.was.in_warp /\ last.was.parked

\* C8: a Call (or CallClosure) of a running process enters a frame that
\* records the position after the call, the warp counter, the handler-stack
\* length and the value stack left once the arguments are taken; as long as
\* a frame is on the call stack no step changes what it recorded, nor the
\* values and handlers below the sizes it recorded; and the Return that ends
\* the frame leaves the handler stack and the warp counter as recorded, the
\* value stack as the recorded one plus the return value, and pos after the
\* call.
C8_CallReturnBalanced ==
    [][\A p \in Procs :
          (Stepped(p) /\ procs[p].running /\ last'.res # "Panic")
          => LET P == procs[p]
                 Q == procs'[p]
             IN /\ (last'.op \in {"Call", "CallClosure"} /\ last'.err = NoError)
                   => /\ Len(Q.call_stack) = Len(P.call_stack) + 1
                      /\ TopFrame(Q).return_to = last'.at + 1
                      /\ TopFrame(Q).warp_counter = P.warp_counter
                      /\ TopFrame(Q).handler_stack_size = Len(P.handler_stack)
                      /\ TopFrame(Q).value_stack_size = Len(Q.value_stack)
                      /\ Len(Q.value_stack) <= Len(P.value_stack)
                      /\ Q.value_stack = Truncate(P.value_stack, Len(Q.value_stack))
                      /\ Q.handler_stack = P.handler_stack
                      /\ Q.warp_counter = P.warp_counter
                /\ \A i \in 1..Len(P.call_stack) :
                      i <= Len(Q.call_stack)
                      => LET f == P.call_stack[i]
                             g == Q.call_stack[i]
                         IN /\ g.return_to = f.return_to
                            /\ g.warp_counter = f.warp_counter
                            /\ g.value_stack_size = f.value_stack_size
                            /\ g.handler_stack_size = f.handler_stack_size
                            /\ f.value_stack_size <= Len(Q.value_stack)
                            /\ f.handler_stack_size <= Len(Q.handler_stack)
                            /\ Truncate(Q.value_stack, f.value_stack_size)
                                  = Truncate(P.value_stack, f.value_stack_size)
                            /\ Truncate(Q.handler_stack, f.handler_stack_size)
                                  = Truncate(P.handler_stack, f.handler_stack_size)
                /\ (last'.op = "Return" /\ last'.res = "Normal")
                   => LET f == TopFrame(P) IN
                      /\ Q.call_stack = Front(P.call_stack)
                      /\ Q.handler_stack = Truncate(P.handler_stack, f.handler_stack_size)
                      /\ Q.warp_counter = f.warp_counter
                      /\ Q.value_stack = Append(Truncate(P.value_stack, f.value_stack_size),
                                                Last(P.value_stack))
                      /\ Q.pos = f.return_to
      ]_vars

\* F opened a warp region and a try block and returned from inside them: back
\* in Main the warp counter is 0 and only the handler of Main is left
C8_Witness ==
    /\ body[1] = WarpBlock /\ body[2] = TryBlock
    /\ last.kind = "step" /\ last.op = "Return" /\ last.res = "Normal"
    /\ Len(procs[last.p].call_stack) = 1
    /\ procs[last.p].warp_counter = 0
    /\ Len(procs[last.p].handler_stack) = 1

\* C9, as stated: the call stack never holds more than
\* settings.max_call_depth frames.
C9_CallDepthBounded ==
    \A p \in Procs : Len(procs[p].call_stack) <= world.settings.max_call_depth

\* C10, as stated: a Yield instruction advances pos and its step returns
\* Yield when warp_counter is 0 and Normal otherwise; a step returns Yield
\* only for a Yield instruction outside warp regions or for a poll of a
\* pending defer.
C10_YieldOnlyFromYieldOrPoll ==
    (last.kind = "step" /\ last.res # "Panic")
    => /\ last.op = "Yield"
          => /\ procs[last.p].pos = last.at + 1
             /\ last.res = (IF procs[last.p].warp_counter = 0 THEN "Yield" ELSE "Normal")
       /\ last.res = "Yield"
          => \/ (last.op = "Yield" /\ procs[last.p].warp_counter = 0)
             \/ (last.polled /\ ~last.executed)

\* C10, amended: a Yield instruction advances pos and its step returns Yield
\* when warp_counter is 0 and Normal otherwise; the steps that return Yield
\* are those of a Yield instruction outside warp regions, those of a Sleep
\* of no more than 0 seconds (which advances pos and sets no defer), and the
\* polls of a pending defer.
C10_YieldSteps ==
    (last.kind = "step" /\ last.res # "Panic")
    => /\ last.op = "Yield"
          => /\ procs[last.p].pos = last.at + 1
             /\ last.res = (IF procs[last.p].warp_counter = 0 THEN "Yield" ELSE "Normal")
       /\ last.res = "Yield"
          => \/ (last.op = "Yield" /\ procs[last.p].warp_counter = 0)
             \/ (last.op = "Sleep" /\ procs[last.p].defer = None
                                   /\ procs[last.p].pos = last.at + 1)
             \/ (last.polled /\ ~last.executed /\ procs[last.p].defer # None)
       /\ (last.polled /\ ~last.executed /\ last.err = NoError)
          => last.res = "Yield"

\* a Yield instruction was executed inside a warp region: pos moved on and
\* the step returned Normal
C10_Witness ==
    /\ last.kind = "step" /\ last.op = "Yield" /\ last.res = "Normal"
    /\ procs[last.p].warp_counter > 0

\* C11, as stated: while warp_counter is greater than 0, a step returns
\* Yield only when the process is parked on a pending deferred operation
\* (the step polled the defer slot and executed no instruction).
C11_WarpYieldsOnlyWhenParked ==
    [][ (Stepped(1) /\ procs[1].running /\ procs[1].warp_counter > 0
          /\ last'.res = "Yield")
        => (procs[1].defer # None /\ last'.polled /\ ~last'.executed) ]_vars

\* the popped duration of the Sleep that the step of `call` executed, taken
\* from the value stack before the step
SleepSeconds(P) == to_number(Last(P.value_stack))

\* C12: a Sleep whose popped duration is 0 or negative returns Yield,
\* advances pos to the next instruction and leaves the defer slot empty;
\* the step that follows it polls nothing and fetches the instruction after
\* the Sleep, so the Sleep yields exactly once.
C12_SleepZeroYieldsOnce ==
    [][ /\ (Stepped(1) /\ last'.executed /\ last'.op = "Sleep"
             /\ procs[1].value_stack # <<>>
             /\ SleepSeconds(procs[1]).ok /\ SleepSeconds(procs[1]).val <= 0)
           => /\ last'.res = "Yield"
              /\ procs'[1].pos = last'.at + 1
              /\ procs'[1].defer = None
              /\ procs'[1].value_stack = Front(procs[1].value_stack)
        /\ (Stepped(1) /\ last.kind = "step" /\ last.op = "Sleep"
             /\ last.res = "Yield")
           => /\ ~last'.polled
              /\ last'.res # "Panic" => (last'.executed /\ last'.at = last.at + 1)
      ]_vars

\* a Sleep of a negative duration has yielded and the process stands at the
\* next instruction with an empty defer slot
C12_Witness ==
    /\ last.kind = "step" /\ last.op = "Sleep" /\ last.res = "Yield"
    /\ Code(body)[last.at].op = "PushInt" /\ Code(body)[last.at].value < 0
    /\ procs[1].pos = last.at + 1 /\ procs[1].defer = None

\* C14: complete succeeds only on a Pending AsyncResult, which becomes
\* Completed with the value; on a Completed or Consumed one it returns Err
\* with the value it was passed and leaves the state, stored value
\* included, as it was.
C14_CompleteOnlyFromPending ==
    [][ \A k \in Procs :
          (last'.kind = "complete" /\ last'.key = k)
          => IF world.requests[k].st = "Pending"
             THEN /\ last'.ok
                  /\ world'.requests[k] = Completed(last'.value)
             ELSE /\ ~last'.ok
                  /\ last'.back = Some(last'.value)
                  /\ world'.requests[k] = world.requests[k] ]_vars

\* a complete with another value was refused on a Completed AsyncResult,
\* which still holds the value stored first
C14_Witness ==
    /\ last.kind = "complete" /\ ~last.ok
    /\ world.requests[last.key].st = "Completed"
    /\ world.requests[last.key].result # last.value
    /\ last.back = Some(last.value)

\* Pending, Completed, Consumed in their order
Rank(cell) ==
    CASE cell.st = "Pending" -> 0
      [] cell.st = "Completed" -> 1
      [] cell.st = "Consumed" -> 2

\* C15: under any interleaving of complete and poll on one AsyncResult the
\* state only moves forward Pending -> Completed -> Consumed; a poll of a
\* Pending one returns Pending and changes nothing; the poll of a Completed
\* one returns Completed with the value of the first complete that
\* succeeded and leaves it Consumed; every poll after that returns
\* Consumed; so exactly one poll returns Completed.
C15_AsyncResultMovesForward ==
    [][ \A k \in Procs :
          /\ Rank(world'.requests[k]) >= Rank(world.requests[k])
          /\ (last'.kind = "poll" /\ last'.key = k)
             => CASE world.requests[k].st = "Pending" ->
                        /\ last'.ret = Pending
                        /\ world'.requests[k] = Pending
                  [] world.requests[k].st = "Completed" ->
                        /\ last'.ret.st = "Completed"
                        /\ Some(last'.ret.result) = seen.completed[k]
                        /\ world'.requests[k] = Consumed
                  [] world.requests[k].st = "Consumed" ->
                        /\ last'.ret = Consumed
                        /\ world'.requests[k] = Consumed
          /\ Len(seen'.taken[k]) =
                (IF world'.requests[k].st = "Consumed" THEN 1 ELSE 0) ]_vars

\* after its value was taken by one poll, an AsyncResult was polled again
\* and returned Consumed
C15_Witness ==
    /\ last.kind = "poll" /\ last.ret = Consumed
    /\ Len(seen.taken[last.key]) = 1
    /\ Some(seen.taken[last.key][1]) = seen.completed[last.key]

\* the operation in the defer slot d is not complete: the key of the request
\* is still Pending, the condition of the barrier is not completed, the
\* deadline of the sleep is not reached
StillPending(d, W) ==
    CASE d.kind = "Request" -> W.requests[d.key] = Pending
      [] d.kind = "Barrier" -> ~is_completed(W, d.condition)
      [] d.kind = "Sleep" -> W.time_ms < d.until

HandleExists(b) ==
    \/ world.held[b] > 0
    \/ \E p \in Procs : procs[p].barrier = Some(b)

\* C16: a BarrierCondition is completed exactly when no Barrier handle of
\* its allocation exists any more, the original and the clones alike; and a
\* condition that a process waits on stays completed once it is completed.
C16_CompletedIffNoHandle ==
    [][ /\ \A b \in 1..MaxBarriers :
             (is_completed(world, b) <=> ~HandleExists(b))'
        /\ \A p \in Procs :
             (/\ procs[p].defer # None
              /\ procs'[p].defer = procs[p].defer
              /\ procs[p].defer.val.kind = "Barrier"
              /\ is_completed(world, procs[p].defer.val.condition))
             => is_completed(world', procs[p].defer.val.condition) ]_vars

\* the host has dropped its handle, the receiver that held the last clone
\* has just terminated, and the condition the sender waits on is completed
C16_Witness ==
    /\ last.kind = "step" /\ last.res = "Terminate" /\ last.p # 1
    /\ procs[1].defer # None
    /\ procs[1].defer.val.kind = "Barrier"
    /\ world.weak[procs[1].defer.val.condition] > 0
    /\ is_completed(world, procs[1].defer.val.condition)

\* C17: a Broadcast with wait leaves pos at the broadcast, parks the process
\* on the condition of a new Barrier and returns that Barrier; while the
\* host or a process that was initialized with a clone of it still holds a
\* handle, a step of the waiting process yields and does not advance; a
\* Broadcast without wait advances at once, sets no defer and returns no
\* barrier.
C17_BroadcastWaits ==
    [][ \A p \in Procs :
          /\ (Stepped(p) /\ last'.executed /\ last'.op = "Broadcast"
                /\ last'.res = "Broadcast")
             => IF Fetched(last').wait
                THEN /\ procs'[p].pos = last'.at
                     /\ last'.result.val.barrier # None
                     /\ procs'[p].defer =
                           Some(DeferBarrier(last'.result.val.barrier.val, last'.at + 1))
                     /\ world'.held[last'.result.val.barrier.val] > 0
                ELSE /\ procs'[p].pos = last'.at + 1
                     /\ last'.result.val.barrier = None
                     /\ procs'[p].defer = None
          /\ (/\ Stepped(p) /\ procs[p].defer # None
              /\ procs[p].defer.val.kind = "Barrier"
              /\ HandleExists(procs[p].defer.val.condition))
             => /\ last'.res = "Yield"
                /\ ~last'.executed
                /\ procs'[p].pos = procs[p].pos
                /\ procs'[p].defer = procs[p].defer ]_vars

\* the host has dropped its own handle, a running receiver holds a clone,
\* and the sender, stepped, has yielded at the broadcast
C17_Witness ==
    /\ last.kind = "step" /\ last.p = 1 /\ last.res = "Yield" /\ last.polled
    /\ procs[1].defer # None
    /\ procs[1].defer.val.kind = "Barrier"
    /\ world.held[procs[1].defer.val.condition] = 0
    /\ \E q \in Procs : /\ q # 1 /\ procs[q].running
                       /\ procs[q].barrier = Some(procs[1].defer.val.condition)
    /\ Code(body)[procs[1].pos + 1].op = "Broadcast"

\* the process that the instruction of the step of p found: as the poll
\* left it when the step polled a finished operation, else as it was
Before(p) == IF last'.woke = None THEN procs[p] ELSE last'.woke.val

\* the error slot and the error scheme of a syscall or an RPC
ErrorSlot(action) ==
    IF action = "Rpc" THEN "last_rpc_error" ELSE "last_syscall_error"
Scheme(W, action) ==
    IF action = "Rpc" THEN W.settings.rpc_error_scheme
    ELSE W.settings.syscall_error_scheme

\* the value stack after the pops of a CallRpc or Syscall instruction
Popped(P, ins) ==
    IF ins.op = "CallRpc"
    THEN Truncate(P.value_stack, Len(P.value_stack) - ins.args)
    ELSE Truncate(P.value_stack, Len(P.value_stack) - ins.len - 1)

\* the defer slot of p holds the key of a syscall or RPC that has completed
\* with the result r
Answered(p, r) ==
    /\ procs[p].defer # None
    /\ procs[p].defer.val.kind = "Request"
    /\ procs[p].defer.val.action \in {"Rpc", "Syscall"}
    /\ world.requests[procs[p].defer.val.key] = Completed(r)

\* the results the step of p got synchronously: all but the polled one
SyncAnswers(p) ==
    IF \E r \in Results : Answered(p, r) THEN Tail(last'.answers) ELSE last'.answers

\* a hard error e on the process P whose value stack the request left as
\* base: Promoted is raised, nothing is pushed, the error slot keeps its
\* value and pos stays (uncaught) or moves to the handler (caught)
HardError(P, base, e, slot) ==
    /\ last'.err = Promoted(e)
    /\ procs'[1][slot] = P[slot]
    /\ IF P.handler_stack = <<>>
       THEN /\ last'.res = "Err"
            /\ procs'[1].pos = P.pos
            /\ procs'[1].value_stack = base
       ELSE /\ last'.recovered
            /\ procs'[1].pos = Last(P.handler_stack).pos
            /\ procs'[1].value_stack = Truncate(base, Last(P.handler_stack).value_stack_size)

\* C18: when a syscall or RPC completes with an error, synchronously or
\* through the polled key: under Soft the error string is pushed on the
\* value stack and stored in the error slot of its kind and execution goes
\* on at the next instruction; under Hard Promoted is raised, nothing is
\* pushed and pos is not advanced.
C18_ErrorSchemes ==
    [][ (Stepped(1) /\ last'.res # "Panic")
        => /\ \A r \in Results :
                (Answered(1, r) /\ ~r.ok)
                => LET d == procs[1].defer.val
                       slot == ErrorSlot(d.action)
                   IN IF Scheme(world, d.action) = "Soft"
                      THEN /\ last'.woke # None
                           /\ last'.woke.val.value_stack =
                                 Append(procs[1].value_stack, StringV(r.error))
                           /\ last'.woke.val[slot] = Some(StringV(r.error))
                           /\ last'.woke.val.pos = d.aft_pos
                           /\ last'.woke.val.defer = None
                           /\ last'.executed /\ last'.at = d.aft_pos
                      ELSE /\ ~last'.executed
                           /\ HardError(procs[1], procs[1].value_stack, r.error, slot)
           /\ (/\ last'.executed /\ last'.op \in {"CallRpc", "Syscall"}
               /\ SyncAnswers(1) # <<>>
               /\ ~SyncAnswers(1)[1].result.ok)
              => LET a == SyncAnswers(1)[1]
                     slot == ErrorSlot(a.action)
                     base == Popped(Before(1), Fetched(last'))
                 IN IF Scheme(world, a.action) = "Soft"
                    THEN /\ last'.res = "Normal" /\ ~last'.recovered
                         /\ procs'[1].value_stack = Append(base, StringV(a.result.error))
                         /\ procs'[1][slot] = Some(StringV(a.result.error))
                         /\ procs'[1].pos = last'.at + 1
                    ELSE HardError(Before(1), base, a.result.error, slot)
      ]_vars

\* a soft error that came through a polled key: the poll pushed the error
\* string, stored it in last_rpc_error and the step went on with the next
\* instruction
C18_Witness ==
    /\ last.kind = "step" /\ last.polled /\ last.executed
    /\ last.woke # None
    /\ last.woke.val.last_rpc_error = Some(StringV("fail"))
    /\ Last(last.woke.val.value_stack) = StringV("fail")
    /\ world.settings.rpc_error_scheme = "Soft"

\* the step executed the instruction that pushes the error slot of `action`,
\* and pushed what the latest call of that kind calls for: its error string
\* if it failed under Soft, the empty string if it succeeded or if there
\* was none since initialize
PushesLatestError(opname, action) ==
    (last'.executed /\ last'.op = opname)
    => LET d == seen'.delivered[1][action] IN
       /\ procs'[1].pos = last'.at + 1
       /\ Front(procs'[1].value_stack) = Before(1).value_stack
       /\ (d # None /\ ~d.val.ok /\ Scheme(world, action) = "Soft")
          => Last(procs'[1].value_stack) = StringV(d.val.error)
       /\ (d = None \/ d.val.ok)
          => Last(procs'[1].value_stack) = empty_string

\* the step processed no result of a call of the kind `action`
NoAnswerOf(action) ==
    \A i \in 1..Len(last'.answers) : last'.answers[i].action # action

\* C19: PushRpcError (PushSyscallError) pushes the error string of the
\* latest RPC (syscall) of the process if it failed under Soft, and the
\* empty string if it succeeded or if none was made since initialize; a
\* step that processes no syscall result leaves the syscall error slot as
\* it is, and a step that processes no RPC result the RPC error slot.
C19_ErrorSlots ==
    [][ (Stepped(1) /\ last'.res # "Panic")
        => /\ PushesLatestError("PushRpcError", "Rpc")
           /\ PushesLatestError("PushSyscallError", "Syscall")
           /\ NoAnswerOf("Syscall")
              => procs'[1].last_syscall_error = procs[1].last_syscall_error
           /\ NoAnswerOf("Rpc")
              => procs'[1].last_rpc_error = procs[1].last_rpc_error
      ]_vars

\* PushRpcError pushed the empty string after an RPC that succeeded, in a
\* script whose RPC before that one had failed under Soft and left its
\* error in the slot
C19_Witness ==
    /\ last.kind = "step" /\ last.op = "PushRpcError" /\ last.res = "Normal"
    /\ body[1] = RpcStmt /\ body[2] = RpcCheckStmt
    /\ world.settings.rpc_error_scheme = "Soft"
    /\ seen.delivered[1]["Rpc"] = Some(OkResult(StringV("yes")))
    /\ Last(procs[1].value_stack) = empty_string
    /\ procs[1].last_syscall_error = None

\* the send_reply call with the key and the JSON form of the value
ReplyCall(key, value) == << [key |-> key, value |-> value] >>

\* C20, as stated: in one activation send_reply is called at most once,
\* with the reply key given to initialize, by the first SendNetworkReply
\* that executes (a SendNetworkReply that runs while no reply was sent yet
\* sends one if a key was given); every SendNetworkReply after a reply pops
\* its value and sends nothing; without a key nothing is ever sent.
C20_FirstReplySends ==
    [][ (Stepped(1) /\ last'.res # "Panic" /\ procs[1].running)
        => /\ Len(seen'.replies[1]) <= 1
           /\ seen.given[1] = None => seen'.replies[1] = <<>>
           /\ (last'.executed /\ last'.op = "SendNetworkReply")
              => IF seen.replies[1] = <<>> /\ seen.given[1] # None
                 THEN /\ Len(last'.sent) = 1
                      /\ last'.sent[1].key = seen.given[1].val
                 ELSE last'.sent = <<>>
      ]_vars

\* C20, amended: in one activation send_reply is called at most once, with
\* the reply key given to initialize.  A SendNetworkReply pops its value and
\* converts it to JSON; if the conversion fails it raises the error, sends
\* nothing and leaves the key with the process; if it succeeds and the
\* process holds the key, the key is taken and send_reply is called with it
\* and the converted value; if the process holds no key (none was given, or
\* a reply took it) nothing is sent.  No other instruction sends a reply.
C20_ReplyAtMostOnce ==
    [][ (Stepped(1) /\ last'.res # "Panic")
        => /\ Len(seen'.replies[1]) <= 1
           /\ \A i \in 1..Len(seen'.replies[1]) :
                 Some(seen'.replies[1][i].key) = seen.given[1]
           /\ seen.given[1] = None => seen'.replies[1] = <<>>
           /\ ~(last'.executed /\ last'.op = "SendNetworkReply")
              => last'.sent = <<>>
           /\ (last'.executed /\ last'.op = "SendNetworkReply")
              => LET P == Before(1)
                     v == to_json(Last(P.value_stack))
                 IN /\ ~last'.recovered
                       => procs'[1].value_stack = Front(P.value_stack)
                    /\ IF ~v.ok
                       THEN /\ last'.sent = <<>>
                            /\ last'.err = v.err
                            /\ last'.recovered => procs'[1].reply_key = P.reply_key
                       ELSE IF P.reply_key = None
                       THEN /\ last'.sent = <<>>
                            /\ last'.res = "Normal"
                            /\ procs'[1].pos = last'.at + 1
                       ELSE /\ last'.sent = ReplyCall(P.reply_key.val, v.val)
                            /\ P.reply_key = seen.given[1]
                            /\ seen.replies[1] = <<>>
                            /\ procs'[1].reply_key = None
      ]_vars

\* in the script  try { reply <ring> } catch e { reply e }  the first
\* SendNetworkReply failed to convert its value and sent nothing; the
\* second, in the catch block, has sent the one reply of the activation
C20_Witness ==
    /\ last.kind = "step" /\ last.op = "SendNetworkReply"
    /\ last.at = ReplyEntry(body) + 8
    /\ Len(last.sent) = 1
    /\ seen.replies[1] = last.sent
    /\ Some(last.sent[1].key) = seen.given[1]
    /\ procs[1].reply_key = None

\* Shared::get of the Shared at ref
GetIn(W, ref) == SharedGet(SharedAt(W, ref), W.cells)
GetAt(ref) == GetIn(world, ref)

\* the Shareds that refer to the cell c
OnCell(W, c) == {r \in SharedRefs(W) : SharedAt(W, r) = Aliased(c)}

\* C21: the first alias of a Shared turns it from Unique into Aliased, and
\* set, get and alias never turn an Aliased Shared back: it keeps its cell.
\* alias returns a handle to the cell of the Shared it was called on (the
\* same cell on every further call, with the value the Shared had), and a
\* set through any Shared of a cell is what get returns on all of them.
C21_AliasedForGood ==
    [][ /\ \A r \in SharedRefs(world) :
              (SharedAt(world, r).shared = "Aliased"
               /\ ~(last'.kind = "redefine" /\ r = InTable(last'.var)))
              => SharedAt(world', r) = SharedAt(world, r)
        /\ last'.kind = "alias"
           => LET old == SharedAt(world, last'.via)
                  new == SharedAt(world', last'.via)
              IN /\ new.shared = "Aliased"
                 /\ last'.ret = new
                 /\ world'.handles = Append(world.handles, new)
                 /\ old.shared = "Aliased" => (new = old /\ world'.cells = world.cells)
                 /\ \A r \in SharedRefs(world) : GetIn(world', r) = GetAt(r)
        /\ last'.kind = "set"
           => LET s == SharedAt(world', last'.via) IN
              /\ GetIn(world', last'.via) = last'.value
              /\ s.shared = "Aliased"
                 => \A r \in OnCell(world', s.cell) : GetIn(world', r) = last'.value
      ]_vars

\* x was aliased twice, once through the table and once through the first
\* handle, and a set through the second handle is read through x and
\* through the first handle
C21_Witness ==
    /\ last.kind = "set" /\ last.via = InHandles(2)
    /\ Len(world.handles) = 2
    /\ world.table["x"] = world.handles[1] /\ world.handles[1] = world.handles[2]
    /\ GetAt(InTable("x")) = NumberV(1)
    /\ GetAt(InHandles(1)) = NumberV(1)

\* C22: redefining a name replaces its binding with the new cell, also when
\* the previous binding was Aliased: the handles that aliased the previous
\* binding stay as they are and keep reading its value; from then on a set
\* through the name does not change what they read, and a set through one of
\* them does not change what the name reads.
C22_RedefineReplaces ==
    [][ /\ last'.kind = "redefine"
           => /\ world'.table[last'.var] = Unique(last'.value)
              /\ \A n \in DOMAIN world.table :
                    n # last'.var => world'.table[n] = world.table[n]
              /\ world'.handles = world.handles
              /\ \A i \in 1..Len(world.handles) : GetIn(world', InHandles(i)) = GetAt(InHandles(i))
        /\ (last'.kind = "set" /\ last'.via.at = "table")
           => \A i \in seen.stale[last'.via.var] :
                 GetIn(world', InHandles(i)) = GetAt(InHandles(i))
        /\ (last'.kind = "set" /\ last'.via.at = "handle")
           => \A n \in DOMAIN world.table :
                 last'.via.idx \in seen.stale[n] => GetIn(world', InTable(n)) = GetAt(InTable(n))
      ]_vars

\* x was aliased, then redefined, then set: the handle that aliased the
\* old binding still reads the old value and x reads the new one
C22_Witness ==
    /\ last.kind = "set" /\ last.via = InTable("x")
    /\ 1 \in seen.stale["x"]
    /\ GetAt(InHandles(1)) = NumberV(0)
    /\ GetAt(InTable("x")) = NumberV(1)

\* C23: check_eq(a, a) is true and check_eq(a, b) = check_eq(b, a) for all
\* values, and check_eq comes to an end on lists that contain themselves,
\* directly or through another list.
C23_CheckEqReflexiveSymmetric ==
    last.kind = "check_eq"
    => /\ last.done
       /\ \E r \in {check_eq(last.b, last.a, world.lists)} :
             r.done /\ r.eq = last.eq
       /\ last.a = last.b => last.eq

\* a list that contains itself through the other list was compared with
\* that other list, which has the same shape, and found equal
C23_Witness ==
    /\ last.kind = "check_eq" /\ last.a = ListV(1) /\ last.b = ListV(2)
    /\ world.lists[1] = << NumberV(1), ListV(2) >>
    /\ world.lists[2] = << StringV("1"), ListV(1) >>
    /\ last.done /\ last.eq

\* the value found by following the indices of path from the value v
RECURSIVE Follow(_, _, _)
Follow(heap, v, path) ==
    IF path = <<>> THEN v
    ELSE IF v.type # "List" THEN [type |-> "Nothing"]
    ELSE IF Head(path) > Len(heap[v.list]) THEN [type |-> "Nothing"]
    ELSE Follow(heap, heap[v.list][Head(path)], Tail(path))

\* the paths that can lead from a list back to it without passing a list twice
CyclePaths == UNION {[1..n -> 1..MaxListLen] : n \in 1..Cardinality(ListIds)}

\* the lists that can be reached from the list l, l included
ReachableFrom(heap, l) ==
    {l} \cup {k \in ListIds : \E p \in CyclePaths : Follow(heap, ListV(l), p) = ListV(k)}

\* the operand of the last elementwise operation that is a list, when the
\* operation was applied to one list: unary, list and scalar, scalar and
\* list, or a list with itself
MappedList ==
    IF last.a.type = "List" THEN last.a ELSE last.b
MappedOne ==
    /\ last.kind \in {"binary_op", "unary_op"}
    /\ last.a.type = "List" \/ last.b.type = "List"
    /\ (last.a.type = "List" /\ last.b.type = "List") => last.a = last.b

\* C24: an elementwise binary or unary operation applied to a list that
\* contains itself (directly or through other lists) comes to an end, and
\* when it raises no error it returns a new list of the same length in which
\* every path that leads from the operand back to the operand leads from the
\* result back to the result, having allocated one list for each list
\* reachable from the operand.
C24_CyclicMapKeepsShape ==
    (/\ MappedOne
     /\ \E p \in CyclePaths : Follow(world.lists, MappedList, p) = MappedList)
    => /\ last.res # "endless"
       /\ last.res = "ok"
          => /\ last.val.type = "List"
             /\ last.val.list > Len(world.lists)
             /\ Len(last.heap[last.val.list]) = Len(world.lists[MappedList.list])
             /\ \A p \in CyclePaths :
                   Follow(world.lists, MappedList, p) = MappedList
                   => Follow(last.heap, last.val, p) = last.val
             /\ Len(last.heap) - Len(world.lists)
                   = Cardinality(ReachableFrom(world.lists, MappedList.list))

InDegrees(x) == x.k = "fin" /\ FSign(x) >= 0 /\ x.n < 360
NonNegative(x) == x.k # "nan" /\ FSign(x) >= 0
InPercent(x) == x.k = "fin" /\ FSign(x) >= 0 /\ x.n <= 100
\* C25: starting from the default properties, after any sequence of
\* perform_set_property, perform_change_property, perform_point_towards_xy,
\* perform_forward, perform_goto_xy and perform_clear_effects the heading and
\* both hues lie in [0, 360), size and pen size are at least 0, and the
\* saturation, value and transparency of the pen colour and of the colour
\* effects lie in [0, 100].
C25_PropertyRanges ==
    LET p == world.props IN
    /\ InDegrees(p.heading) /\ InDegrees(p.pen_color_h) /\ InDegrees(p.effects.color_h)
    /\ NonNegative(p.size) /\ NonNegative(p.pen_size)
    /\ \A x \in {p.pen_color_s, p.pen_color_v, p.pen_color_t,
                 p.effects.color_s, p.effects.color_v, p.effects.color_t} : InPercent(x)

SlotOf(config, slot) == IF slot = "request" THEN config.request ELSE config.command
InvokedAs(name) == SelectSeq(last.call.invoked, LAMBDA c : c.name = name)
\* C26: in a.fallback(b), for every request and command that is dispatched,
\* the handler of b is invoked if and only if a has no handler or the handler
\* of a returned UseDefault, and then exactly once, with the key and the
\* request or command that a handed back; when a returns Handled the handler
\* of b is not invoked for that key and the composed handler returns Handled.
C26_FallbackOrder ==
    last.kind # "none" =>
        LET A == SlotOf(world.a, last.kind)
            B == SlotOf(world.b, last.kind)
            a_calls == InvokedAs("a")
            b_calls == InvokedAs("b")
            a_out == A.val[1].out[last.request]
        IN /\ A.tag = "Some" => a_calls = <<[name |-> "a", key |-> last.key, request |-> last.request]>>
           /\ A.tag = "None" => a_calls = <<>>
           /\ B.tag = "None" => b_calls = <<>>
           /\ B.tag = "Some" =>
                /\ b_calls # <<>> <=> (A.tag = "None" \/ a_out # 0)
                /\ A.tag = "None" => b_calls = <<[name |-> "b", key |-> last.key, request |-> last.request]>>
                /\ (A.tag = "Some" /\ a_out # 0) => b_calls = <<[name |-> "b", key |-> last.key, request |-> a_out]>>
           /\ (A.tag = "Some" /\ a_out = 0) => (b_calls = <<>> /\ last.call.status = Handled)
C26_Witness ==
    /\ last.kind = "command"
    /\ world.a.command.tag = "Some" /\ world.b.command.tag = "Some"
    /\ Len(last.call.invoked) = 2
    /\ last.call.invoked[2].name = "b"
    /\ last.call.invoked[2].request # last.request
    /\ last.call.status = Handled

\* step, line 275: the ExecError a failed step of p returns
ExecErrorOf(p) == [cause |-> last'.err, pos |-> procs'[p].pos]
\* the position of the instruction a failed step of p was executing: the one
\* it fetched, or the one whose pending operation it polled
FailedAt(p) == IF last'.executed THEN last'.at ELSE procs[p].pos
\* C27: the pos of an ExecError returned by step is the bytecode position of
\* the instruction whose execution raised the error (the instruction just
\* fetched, or the one whose pending request or command was polled); pos is
\* never advanced past a failing instruction, also when the instruction had
\* already popped its operands.
C27_ErrorPosition ==
    [][\A p \in Procs :
         (Stepped(p) /\ last'.res = "Err") =>
             /\ ExecErrorOf(p).pos = FailedAt(p)
             /\ ExecErrorOf(p).cause # NoError
             /\ ~last'.executed => (last'.polled /\ procs[p].defer # None)]_vars
C27_Witness ==
    /\ last.kind = "step" /\ last.res = "Err" /\ last.executed
    /\ Fetched(last).op \in {"Syscall", "CallRpc"}
    /\ procs[last.p].pos = last.at
    /\ procs[last.p].value_stack = <<>>

\* C28: for every sequence of strings without NUL, the empty sequence and
\* empty strings included, lossless_split of the string that LosslessJoin
\* builds from it (push of each, then finish) neither fails its assertion nor
\* returns anything but the original sequence.
C28_JoinSplitRoundTrip ==
    /\ world.stage = "split" => world.back = world.pushed
    /\ ~(world.stage = "panic" /\ last.kind = "split")
C28_Witness ==
    /\ world.stage = "split"
    /\ Len(world.pushed) = 3
    /\ world.pushed[1] = <<>> /\ world.pushed[2] # <<>> /\ world.pushed[3] = <<>>
C28_EmptyWitness == world.stage = "split" /\ world.pushed = <<>>

\* the sender is parked on a barrier
Waiting == procs[1].defer # None /\ procs[1].defer.val.kind = "Barrier"
\* a step of the sender found the operation it was parked on completed
Resumed == last.kind = "step" /\ last.p = 1 /\ last.polled /\ last.woke # None
C29_Resumed == Resumed /\ last.woke.val.pos > FEntry

RequestOps == {"Ask", "Print", "CallRpc", "Syscall"}
\* the call that a request or command instruction makes
CallOf(op) ==
    CASE op = "Ask" -> [call |-> "perform_request", action |-> "Input"]
      [] op = "CallRpc" -> [call |-> "perform_request", action |-> "Rpc"]
      [] op = "Syscall" -> [call |-> "perform_request", action |-> "Syscall"]
      [] OTHER -> [call |-> "perform_command", action |-> "Command"]
\* C30: the perform_request and perform_command calls that the host sees
\* from a process are those of the request and command instructions it
\* executes, in the order it executes them: a step makes at most one call,
\* the call of the instruction it fetched, and every request or command
\* instruction that is executed makes its call once.  A step that finds the
\* defer slot occupied by a pending operation fetches nothing and calls
\* nothing; when the operation has completed the process goes on from the
\* position after the instruction that issued it, so that no instruction is
\* issued again while its key is polled and no call is made while a key is
\* outstanding.  An asynchronous answer parks the process on the issuing
\* instruction with aft_pos the next one.
C30_CallsInProgramOrder ==
    [][\A p \in Procs :
         (Stepped(p) /\ last'.res # "Panic") =>
            LET calls == last'.performed
                parked == procs[p].defer # None
                op == last'.op
            IN /\ Len(calls) <= 1
               /\ calls # <<>> =>
                    /\ last'.executed /\ op \in RequestOps
                    /\ calls[1].call = CallOf(op).call
                    /\ calls[1].action = CallOf(op).action
                    /\ ~parked \/ last'.woke # None
                    /\ world.requests[p] # Pending
                    /\ calls[1].mode = "Async" =>
                         /\ procs'[p].pos = last'.at
                         /\ procs'[p].defer # None
                         /\ procs'[p].defer.val.aft_pos = last'.at + 1
                    /\ (calls[1].mode = "Sync" /\ last'.res # "Err" /\ ~last'.recovered) =>
                         (procs'[p].pos = last'.at + 1 /\ procs'[p].defer = None)
               /\ (last'.executed /\ op \in RequestOps) => calls # <<>>
               /\ (parked /\ last'.woke = None) => (calls = <<>> /\ ~last'.executed)
               /\ (parked /\ last'.executed) => last'.at = procs[p].defer.val.aft_pos]_vars
\* after its ask was answered, the process issued the command that follows
\* it, which the system answers later: the process is parked on the command
C30_Witness ==
    /\ last.kind = "step" /\ last.res = "Normal"
    /\ procs[last.p].last_answer # None
    /\ last.performed # <<>>
    /\ last.performed[1].call = "perform_command" /\ last.performed[1].mode = "Async"
    /\ procs[last.p].defer # None /\ procs[last.p].defer.val.kind = "Command"
    /\ procs[last.p].defer.val.aft_pos = last.at + 1 /\ procs[last.p].pos = last.at

\* C31: a process parked on a key that the host completes, and that keeps
\* being stepped, gets to a step that leaves the defer slot empty with the
\* process at the aft_pos of the defer (or is initialized anew meanwhile);
\* the step that wakes it from a MessageReply completed with None pushed the
\* empty string.
Parked ==
    /\ procs[1].defer # None
    /\ procs[1].defer.val.kind \in {"Request", "Command", "MessageReply"}
Woken == last.kind = "step" /\ last.polled /\ last.woke # None /\ last.woke.val.defer = None
Restarted == last.kind = "initialize"
C31_ParkedResumes ==
    /\ Parked ~> (Woken \/ Restarted)
    /\ [][(Parked /\ last'.kind = "step" /\ last'.woke # None)
            => /\ last'.woke.val.pos = procs[1].defer.val.aft_pos
               /\ (procs[1].defer.val.kind = "MessageReply"
                     /\ world.requests[1] = Completed(None))
                    => last'.woke.val.value_stack =
                          Append(procs[1].value_stack, empty_string)]_vars

\* C32: a step that executes Assign writes the value to the binding of the
\* name in the innermost of locals, entity fields and globals that binds it,
\* or defines the name in the locals of the current frame when none does;
\* every other binding of the three tables reads as before the step.
Scopes == {"locals", "fields", "globals"}
Table(scope, P, W) ==
    CASE scope = "locals" -> TopFrame(P).locals
      [] scope = "fields" -> W.fields
      [] scope = "globals" -> W.globals
ScopeOf(var, P, W) ==
    IF var \in DOMAIN TopFrame(P).locals THEN "locals"
    ELSE IF var \in DOMAIN W.fields THEN "fields"
    ELSE IF var \in DOMAIN W.globals THEN "globals"
    ELSE "locals"
ValueIn(scope, n, P, W) == SharedGet(Table(scope, P, W)[n], W.cells)
AssignStep ==
    /\ last'.kind = "step" /\ last'.op = "Assign" /\ last'.res = "Normal"
    /\ ~last'.polled
\* the binding of var in the scope the Assign wrote and the written value
AssignWrote(var, target, value) ==
    /\ var \in DOMAIN Table(target, procs'[1], world')
    /\ ValueIn(target, var, procs'[1], world') = value
    /\ \A s \in Scopes :
          DOMAIN Table(s, procs'[1], world') =
             DOMAIN Table(s, procs[1], world) \cup (IF s = target THEN {var} ELSE {})
C32_AssignFrame ==
    [][AssignStep =>
         LET var == Code(body)[last'.at + 1].var
             target == ScopeOf(var, procs[1], world)
         IN /\ AssignWrote(var, target, Last(procs[1].value_stack))
            /\ \A s \in Scopes : \A n \in DOMAIN Table(s, procs[1], world) :
                  (s # target \/ n # var)
                     => ValueIn(s, n, procs'[1], world') = ValueIn(s, n, procs[1], world)]_vars

\* C32 as amended: every other binding is the same binding after the step,
\* and reads as before unless it is an alias of the cell that was written
C32_AssignFrameAliased ==
    [][AssignStep =>
         LET var == Code(body)[last'.at + 1].var
             target == ScopeOf(var, procs[1], world)
         IN /\ AssignWrote(var, target, Last(procs[1].value_stack))
            /\ \A s \in Scopes : \A n \in DOMAIN Table(s, procs[1], world) :
                  (s # target \/ n # var)
                     => /\ Table(s, procs'[1], world')[n] = Table(s, procs[1], world)[n]
                        /\ \/ ValueIn(s, n, procs'[1], world') = ValueIn(s, n, procs[1], world)
                           \/ /\ var \in DOMAIN Table(target, procs[1], world)
                              /\ Table(s, procs[1], world)[n] = Table(target, procs[1], world)[var]
                              /\ Table(s, procs[1], world)[n].shared = "Aliased"]_vars

\* an Assign wrote the field x of an entity whose project also has a global x
C32_Witness ==
    /\ last.kind = "step" /\ last.op = "Assign" /\ last.res = "Normal"
    /\ Code(body)[last.at + 1].var = "x"
    /\ "x" \notin DOMAIN TopFrame(procs[1]).locals
    /\ "x" \in DOMAIN world.fields /\ "x" \in DOMAIN world.globals
    /\ SharedGet(world.fields["x"], world.cells) = NumberV(5)
    /\ SharedGet(world.globals["x"], world.cells) = NumberV(100)

\* C33: the variable x that closures captured reads the same through the
\* scope that made the closures, through the captures of every closure the
\* scope holds and inside every running call that has no parameter x, in
\* every reachable state: whoever assigns it, all of them and the later
\* calls read the assigned value.  An Assign to x inside a call with a
\* parameter x writes the parameter and leaves the captured cell, and what
\* the creating scope reads, as they were.
CreatorView(P, W) ==
    LET found == lookup("x", W.globals, W.fields, Head(P.call_stack).locals) IN
    IF found = None THEN {} ELSE {SharedGet(found.val, W.cells)}
\* the closures over x that the creating scope holds in f and h
Held(P) ==
    {n \in {"f", "h"} \cap DOMAIN Head(P.call_stack).locals :
        LET v == Head(P.call_stack).locals[n].value IN
        v.type = "Closure" /\ "x" \in DOMAIN v.captures}
CaptureViews(P, W) ==
    {SharedGet(Head(P.call_stack).locals[n].value.captures["x"], W.cells) : n \in Held(P)}
\* the frame i of the call stack is a call with a parameter x
Shadowed(P, i) == Code(body)[P.call_stack[i].called_from + 1].args = 1
CallViews(P, W) ==
    {SharedGet(P.call_stack[i].locals["x"], W.cells) :
        i \in {j \in 2..Len(P.call_stack) : ~Shadowed(P, j)}}
Views(P, W) == CreatorView(P, W) \cup CaptureViews(P, W) \cup CallViews(P, W)
C33_CapturedCellShared ==
    /\ [](procs[1].call_stack # <<>> /\ Held(procs[1]) # {}
            => Cardinality(Views(procs[1], world)) = 1)
    /\ [][(AssignStep /\ Len(procs[1].call_stack) > 1
              /\ Shadowed(procs[1], Len(procs[1].call_stack))
              /\ Code(body)[last'.at + 1].var = "x")
            => /\ world'.cells = world.cells
               /\ CreatorView(procs'[1], world') = CreatorView(procs[1], world)
               /\ SharedGet(TopFrame(procs'[1]).locals["x"], world'.cells)
                     = Last(procs[1].value_stack)]_vars

\* two closures over the global x were called one after the other: the
\* second call returned 102, which the creating scope and both captures read
C33_Witness ==
    /\ procs[1].call_stack # <<>> /\ Held(procs[1]) = {"f", "h"}
    /\ "r" \in DOMAIN TopFrame(procs[1]).locals
    /\ TopFrame(procs[1]).locals["r"] = Unique(NumberV(102))
    /\ Views(procs[1], world) = {NumberV(102)}
\* a call with a parameter x assigned 8 to it and the captured x still reads 1
C33_ShadowWitness ==
    /\ last.kind = "step" /\ last.op = "Assign" /\ Len(procs[1].call_stack) = 2
    /\ Shadowed(procs[1], 2)
    /\ TopFrame(procs[1]).locals["x"] = Unique(NumberV(8))
    /\ CreatorView(procs[1], world) = {NumberV(1)}

\* C34: with every key completed once, no step of the process polls a key
\* that an earlier step already took the result of: step never gets to the
\* Consumed arm of its poll, also after a completed error was raised and
\* caught by a handler of the process.
PolledConsumed ==
    /\ last.kind = "step" /\ last.res = "Panic"
    /\ last.polled /\ ~last.executed
    /\ procs[1].defer # None
    /\ world.requests[procs[1].defer.val.key] = Consumed
C34_NeverPollsConsumed == ~PolledConsumed

\* C35: in every reachable state every handler on the handler stack of a
\* process records a call-stack size of at most the length of its call
\* stack, i.e. the frame that pushed it is still there; and a step that
\* catches an error unwinds to a frame that was on the call stack when the
\* error was raised: never to the handler of a call that has returned.
HandlersOfLiveFrames(P) ==
    \A i \in 1..Len(P.handler_stack) :
        P.handler_stack[i].call_stack_size <= Len(P.call_stack)
C35_HandlersOfLiveFrames ==
    /\ [](\A p \in Procs : HandlersOfLiveFrames(procs[p]))
    /\ [][\A p \in Procs :
            (last'.kind = "step" /\ last'.p = p /\ last'.recovered)
               => /\ procs[p].handler_stack # <<>>
                  /\ Len(procs'[p].call_stack) = Last(procs[p].handler_stack).call_stack_size
                  /\ SubSeq(procs[p].call_stack, 1, Len(procs'[p].call_stack) - 1)
                        = Front(procs'[p].call_stack)]_vars

\* F returned to Main from inside a try block of its own, and the handler
\* stack holds the handler of Main alone
C35_Witness ==
    /\ last.kind = "step" /\ last.op = "Return" /\ last.res = "Normal"
    /\ TryBlock \in {body[i] : i \in DOMAIN body}
    /\ Len(procs[1].call_stack) = 1
    /\ Len(procs[1].handler_stack) = 1
    /\ procs[1].handler_stack[1].call_stack_size = 1

\* C36: whenever a Call, a MakeClosure or a CallRpc is executed, the meta
\* stack holds exactly the names the instruction consumes (params, params +
\* captures, args), also after an earlier error was caught by a handler.
Consumes(ins) ==
    CASE ins.op = "Call" -> ins.params
      [] ins.op = "MakeClosure" -> ins.params + ins.captures
      [] ins.op = "CallRpc" -> ins.args
C36_MetaStackExact ==
    [][(last'.kind = "step" /\ last'.executed /\ procs[1].running
          /\ last'.op \in {"Call", "MakeClosure", "CallRpc"})
         => Len(procs[1].meta_stack) = Consumes(Code(body)[last'.at + 1])]_vars

C38_FailedLoadKeepsProject ==
    /\ [][(last'.kind = "receive" /\ last'.command.cmd = "SetProject")
            => LET content == last'.command.content IN
               IF content.parses /\ content.compiles
               THEN /\ world'.current_proj = content
                    /\ world'.env = [of |-> content.name, inputs |-> 0]
               ELSE /\ world'.env = world.env
                    /\ world'.current_proj = world.current_proj]_vars
    /\ [][world'.current_proj # world.current_proj
            => (last'.kind = "receive" /\ last'.command.cmd = "SetProject")]_vars
    /\ [](world.env.of = world.current_proj.name)

\* project a was loaded and given an input, and a text that does not compile
\* was received after it: a is still the project, with its input
C38_Witness ==
    /\ last.kind = "receive" /\ last.command.cmd = "SetProject"
    /\ last.command.content.parses /\ ~last.command.content.compiles
    /\ world.current_proj.name = "a"
    /\ world.env = [of |-> "a", inputs |-> 1]

PropKinds == {"get", "set", "change", "clear", "goto", "point", "forward"}
\* C39: every perform_* operation of Properties (get, set, change, clear
\* effects, goto, point towards, forward) completes the key it is given
\* exactly once and returns Handled, and a call that completes the key with
\* Err leaves every property as it was.
C39_KeyCompletedOnce ==
    /\ [](last.kind \in PropKinds => (Len(last.key) = 1 /\ last.status = "Handled"))
    /\ [][(last'.kind \in PropKinds /\ Len(last'.key) >= 1 /\ ~last'.key[1].ok)
            => world'.props = world.props]_vars
C39_Witness ==
    /\ last.kind = "change" /\ last.prop = "PenColor"
    /\ last.key = << KeyErr("attempt to apply relative change to a color") >>
    /\ world.props # DefaultProperties
C39_ConversionWitness ==
    /\ last.kind = "set" /\ last.prop = "Heading"
    /\ last.key = << KeyErr("ErrorCause") >>
    /\ world.props.heading # DefaultProperties.heading

IsReal(index) == index.type = "Number"
Whole(raw) == raw.k = "fin" /\ raw.halves % 2 = 0
OutsideRange(raw, len) == raw.k = "inf" \/ raw.halves < 2 \/ raw.halves > 2 * len
Checked == {"ListGet", "ListAssign", "ListRemove"}
Appends ==
    /\ Len(world'.list) = Len(world.list) + 1
    /\ SubSeq(world'.list, 1, Len(world.list)) = world.list
\* C40 as stated: for ListGet, ListAssign and ListRemove on a list of length
\* len, every index outside [1, len] raises IndexOutOfBounds and every
\* non-integer index raises IndexNotInteger, with the list unchanged when an
\* error is raised; ListInsert with index len + 1 appends.
C40_IndexErrors ==
    [][(last'.kind \in Checked \cup {"ListInsert"} /\ IsReal(last'.index)) =>
         LET raw == last'.index.raw IN
         /\ last'.kind \in Checked =>
              /\ OutsideRange(raw, last'.len) => last'.err.cause = "IndexOutOfBounds"
              /\ ~Whole(raw) => last'.err.cause = "IndexNotInteger"
         /\ ~last'.ok => world'.list = world.list
         /\ (last'.kind = "ListInsert" /\ raw = Half(2 * (last'.len + 1)))
              => (last'.ok /\ Appends)]_vars
\* C40 amended: for ListGet, ListAssign and ListRemove on a list of length
\* len, every index outside [1, len], whole or not, raises IndexOutOfBounds,
\* every non-integer index within [1, len] raises IndexNotInteger, and every
\* whole index within [1, len] succeeds; the list is unchanged when an error
\* is raised; ListInsert does the same with [1, len + 1], and with index
\* len + 1 it appends.
C40_IndexErrorsRangeFirst ==
    [][(last'.kind \in Checked \cup {"ListInsert"} /\ IsReal(last'.index)) =>
         LET raw == last'.index.raw
             top == IF last'.kind = "ListInsert" THEN last'.len + 1 ELSE last'.len
         IN
         /\ OutsideRange(raw, top) => last'.err.cause = "IndexOutOfBounds"
         /\ (~OutsideRange(raw, top) /\ ~Whole(raw)) => last'.err.cause = "IndexNotInteger"
         /\ (~OutsideRange(raw, top) /\ Whole(raw)) => last'.ok
         /\ ~last'.ok => world'.list = world.list
         /\ (last'.kind = "ListInsert" /\ raw = Half(2 * (last'.len + 1)))
              => (last'.ok /\ Appends)]_vars
C40_Witness ==
    /\ last.kind = "ListAssign" /\ last.index = IndexV(Half(3))
    /\ last.err.cause = "IndexNotInteger" /\ Len(world.list) = 2
C40_OutsideWitness ==
    /\ last.kind = "ListRemove" /\ last.index = IndexV(Half(2 * last.len + 2))
    /\ last.err.cause = "IndexOutOfBounds" /\ last.len >= 1
C40_AppendWitness ==
    /\ last.kind = "ListInsert" /\ last.index = IndexV(Half(4)) /\ last.ok
    /\ Len(world.list) = 2

====
